---- MODULE Spec2Model ----
(***************************************************************************)
(* Model of the Vienna weather repository.                                 *)
(*                                                                         *)
(*   simple-pipeline.py        the four-stage CI/CD pipeline (Spec)        *)
(*   weather_auto_rabbitmq.py  the hourly weather monitor (MonitorSpec)    *)
(*                                                                         *)
(* The two programs are independent processes; each has its own            *)
(* specification over the same variables, the other program standing still.*)
(***************************************************************************)
EXTENDS Integers, Sequences, FiniteSets, TLC

VARIABLES
    \* ---- simple-pipeline.py ----
    pc,             \* position of the pipeline process
    runNo,          \* 1 = first run, 2 = the second run against the flipped search engine
    esReachable,    \* whether the search engine (Elasticsearch) answers in this run
    fault,          \* where, if anywhere, an unexpected exception is raised
    env,            \* facts of the environment, fixed the first time the code reads them
    stage_results,  \* self.stage_results: stage name -> [status, details, files]
    idx,            \* position of the for loop of run_pipeline in `stages`
    success_count,  \* success_count of run_pipeline
    calls,          \* the stage functions invoked so far in this run, in order
    returns,        \* what each of them returned to run_pipeline, in order
    frame,          \* the call in progress: what it notifies and what it will return
    notifications,  \* the POSTs attempted so far in this run, in order
    pipeline_id,    \* self.pipeline_id of the pipeline object of this run
    lastOutcome,    \* how the last POST ended
    reported,       \* the "Stages completed" count run_pipeline printed
    verdict,        \* the "PIPELINE STATUS" run_pipeline printed
    critical,       \* whether main printed CRITICAL ERROR
    exit_code,      \* the status given to sys.exit, -1 while running
    prev,           \* what the first run ended with, kept for the second run
    \* ---- weather_auto_rabbitmq.py ----
    mpc,                \* position of the monitor process
    rabbitmq_connected, \* the connectivity flag of hourly_weather_monitoring
    publisher,          \* whether a WeatherRabbitMQPublisher was constructed, and its channel
    check_count,        \* check_count of hourly_weather_monitoring
    weather_data,       \* the observation of the current cycle, "None" when absent
    log,                \* the lines of vienna_weather_log.json, in order
    published,          \* the observations handed to the broker, in order
    cycle,              \* the calls made in the current cycle, in order
    fetched,            \* the check numbers whose fetch returned an observation
    first_flag,         \* the connectivity flag as first set by the startup sequence
    stopped,            \* how the loop ended: "running", "interrupt" or "fetch_fault"
    mode,               \* who calls the publisher: the "monitor" or a "driver" of the class
    ensure_ok,          \* what ensure_rabbitmq_running returned: "none", "ok", "failed"
    max_retries,        \* max_retries of the connect call in progress
    attempt,            \* attempt of the for loop of connect
    ctrace,             \* what the connect call did, in order: "ok", "failed", "wait"
    connect_calls,      \* the calls of connect so far
    pcalls,             \* the last two returned calls of the publisher's methods
    close_calls,        \* the calls of publisher.close() by the monitor
    sleeps,             \* the seconds of each sleep of the loop, in order
    fetch_calls,        \* the calls of get_vienna_weather so far
    lost,               \* the check numbers whose log write raised
    ncalls,             \* the calls the driver has made
    unit,               \* the last call of a function on its own: name, inputs, result
    top                 \* the monitor's interrupt summary and how its process ended

pipeVars == <<pc, runNo, esReachable, fault, env, stage_results, idx, success_count,
              calls, returns, frame, notifications, lastOutcome, reported, verdict, critical,
              exit_code, prev, pipeline_id>>
monVars  == <<mpc, rabbitmq_connected, publisher, check_count, weather_data, log,
              published, cycle, fetched, first_flag, stopped, mode, ensure_ok, max_retries,
              attempt, ctrace, connect_calls, pcalls, close_calls, sleeps, fetch_calls,
              lost, ncalls, unit, top>>
vars     == <<pipeVars, monVars>>

(***************************************************************************)
(* Bounds.                                                                 *)
(***************************************************************************)
MaxChecks == 3      \* monitoring cycles explored
MaxRuns   == 2      \* pipeline runs explored (the second against the flipped search engine)
MaxRetries == 3     \* largest max_retries a driver passes to connect
MaxCalls  == 4      \* calls a driver makes to one publisher
MaxOut    == 3      \* characters in the output of a container listing

(***************************************************************************)
(* simple-pipeline.py                                                      *)
(***************************************************************************)
Stages == <<"clone", "build", "unittest", "deploy">>
StageNames == {Stages[i] : i \in 1..Len(Stages)}

RequiredFiles == {"weather_auto_rabbitmq.py", "docker-compose.yml",
                  "pipeline-config.json", "simple-pipeline.py"}

Unset == "unset"
UnsetFiles == {"?"}

\* The points at which an unexpected exception can be raised. A run meets at most one:
\* a stage that raises records `failed` and halts the run, anything else ends main.
FaultPoints == {"none", "construct", "clone", "build", "unittest", "deploy",
                "loop1", "loop2", "loop3", "loop4", "summary"}

LoopFault(i) == <<"loop1", "loop2", "loop3", "loop4">>[i]

EnvDomain(f) ==
    CASE f = "git_dir"   -> {"present", "absent"}            \* project_root/.git
      [] f = "clone_rc"  -> {"zero", "nonzero"}               \* git clone exit status
      [] f = "config"    -> {"present", "absent"}            \* project_root/pipeline-config.json
      [] f = "api"       -> {"200", "other", "error"}        \* httpbin.org/status/200
      [] f = "es_health" -> {"200_json", "200_badjson", "other"} \* /_cluster/health when reachable
      [] f = "kibana"    -> {"200", "other", "error"}        \* /api/status
      [] f = "rabbitmq"  -> {"200", "other", "error"}        \* /api/overview

\* The values a read of fact f can give: any, the first time; the same, afterwards.
Pick(f) == IF env[f] = Unset THEN EnvDomain(f) ELSE {env[f]}
PickMissing == IF env.missing = UnsetFiles THEN SUBSET RequiredFiles ELSE {env.missing}

InitEnv == [git_dir |-> Unset, clone_rc |-> Unset, config |-> Unset, api |-> Unset,
            es_health |-> Unset, kibana |-> Unset, rabbitmq |-> Unset,
            missing |-> UnsetFiles]

Put(d, k, v) == [x \in DOMAIN d \cup {k} |-> IF x = k THEN v ELSE d[x]]
NoResults == [x \in {} |-> [status |-> "", details |-> "", files |-> {}]]
NoFrame == [stage |-> "", status |-> "", details |-> "", files |-> {}, ret |-> FALSE,
            handler |-> ""]

\* The epoch seconds at which a run can start.
StartTimes == {1700000000, 1700000060}

\* self.pipeline_id = f"pipeline-{int(time.time())}"
new_pipeline_id(t) == <<"pipeline-", t>>

Result(status, details, files, ret) ==
    [status |-> status, details |-> details, files |-> files, ret |-> ret]

\* What the search-engine health endpoint gives a probe in this run.
EsProbe(h) == IF esReachable THEN h ELSE "error"

\* How git rev-parse --short HEAD can end, and whether temp_clone exists beforehand.
CloneHash == {"ok", "nonzero", "raises"}
CloneTemp == {"exists", "absent"}

\* Variant of clone_result: a commit hash that cannot be read fails the stage.
clone_result_needs_hash(g, rc, m, hash, raised) ==
    IF raised THEN Result("failed", "Clone stage failed", {}, FALSE)
    ELSE IF g = "absent" /\ rc = "nonzero"
         THEN Result("failed", "Git clone failed", {}, FALSE)
    ELSE IF m # {} THEN Result("failed", "Missing files in repository", m, FALSE)
    ELSE IF hash # "ok" THEN Result("failed", "Clone stage failed", {}, FALSE)
    ELSE Result("success", "Repository cloned and validated", {}, TRUE)

\* run_stage_clone: g = project_root/.git, rc = exit status of git clone (read only when
\* .git is absent), m = the required files missing from the validation root, hash = how
\* the reading of the commit hash ends (in a try statement of its own, only printed).
clone_result(g, rc, m, hash, raised) ==
    IF raised THEN Result("failed", "Clone stage failed", {}, FALSE)
    ELSE IF g = "absent" /\ rc = "nonzero"
         THEN Result("failed", "Git clone failed", {}, FALSE)
    ELSE IF m # {} THEN Result("failed", "Missing files in repository", m, FALSE)
    ELSE Result("success", "Repository cloned and validated", {}, TRUE)

\* Variant of clone_steps: the repository is cloned whether or not .git is there.
clone_steps_always_clones(g, tmp, rc, m) ==
    LET validated == IF rc = "zero"
                     THEN <<"validate">> \o (IF m = {} THEN <<"rev_parse">> ELSE <<>>)
                     ELSE <<>>
    IN  [steps |-> (IF tmp = "exists" THEN <<"rmtree">> ELSE <<>>)
                   \o <<"git_clone">> \o validated,
         root |-> IF rc = "zero" THEN "temp_clone" ELSE "none"]

\* What run_stage_clone does, in order, when nothing raises: with .git present only
\* the validation of project_root; otherwise the removal of an existing temp_clone,
\* git clone, and after a zero exit the validation of temp_clone; the commit hash is
\* read after a validation that found every file.
clone_steps(g, tmp, rc, m) ==
    LET validated == <<"validate">> \o (IF m = {} THEN <<"rev_parse">> ELSE <<>>)
    IN  IF g = "present" THEN [steps |-> validated, root |-> "project_root"]
        ELSE [steps |-> (IF tmp = "exists" THEN <<"rmtree">> ELSE <<>>)
                        \o <<"git_clone">>
                        \o (IF rc = "zero" THEN validated ELSE <<>>),
              root |-> IF rc = "zero" THEN "temp_clone" ELSE "none"]

\* What the checks of run_stage_build can find: the required packages importable or
\* not; pip install of a missing package exiting 0, exiting non-zero or raising;
\* requirements.txt absent, or its installation ending in one of those ways;
\* docker ps listing the ELK containers, listing too few, exiting non-zero or raising.
BuildDeps == {"importable", "missing"}
BuildInstall == {"ok", "nonzero", "raises"}
BuildRequirements == {"absent", "ok", "nonzero", "raises"}
BuildDocker == {"running", "container_absent", "nonzero", "raises"}

\* The WARNING lines the body of run_stage_build prints.
build_warnings(deps, install, reqs, docker) ==
    (IF deps = "missing" THEN {"package not found"} ELSE {})
    \cup (IF deps = "missing" /\ install # "ok" THEN {"package not installed"} ELSE {})
    \cup (IF reqs \in {"nonzero", "raises"} THEN {"requirements not installed"} ELSE {})
    \cup (IF docker = "container_absent" THEN {"container not found"} ELSE {})
    \cup (IF docker \in {"nonzero", "raises"} THEN {"docker not available"} ELSE {})

\* Variant of build_result: a package that cannot be installed fails the stage.
build_result_strict(deps, install, reqs, docker, raised) ==
    IF raised \/ (deps = "missing" /\ install # "ok")
    THEN Result("failed", "Build failed", {}, FALSE)
    ELSE Result("success", "Environment setup completed", {}, TRUE)

\* run_stage_build: every check of the body ends in a SUCCESS or a WARNING line, the
\* inner try statements catch what pip and docker raise; only an exception of the
\* body itself reaches the except clause of the stage.
build_result(deps, install, reqs, docker, raised) ==
    IF raised THEN Result("failed", "Build failed", {}, FALSE)
    ELSE Result("success", "Environment setup completed", {}, TRUE)

\* Variant of unittest_result: a stage with failed checks stops the pipeline.
unittest_result_warn_halts(config, api, es, raised) ==
    LET all_tests_passed == config = "present" /\ api = "200"
    IN  IF raised THEN Result("failed", "Unit tests failed", {}, FALSE)
        ELSE IF all_tests_passed THEN Result("success", "All tests passed", {}, TRUE)
        ELSE Result("warning", "Some tests failed", {}, FALSE)

\* Variant of unittest_result: the search-engine check is outside a try statement.
unittest_result_es_uncaught(config, api, es, raised) ==
    LET all_tests_passed == config = "present" /\ api = "200"
    IN  IF raised \/ es = "error" THEN Result("failed", "Unit tests failed", {}, FALSE)
        ELSE IF all_tests_passed THEN Result("success", "All tests passed", {}, TRUE)
        ELSE Result("warning", "Some tests failed", {}, TRUE)

\* Variant of unittest_result: the search-engine check gates the result.
unittest_result_es_gated(config, api, es, raised) ==
    LET all_tests_passed == config = "present" /\ api = "200"
                            /\ es \in {"200_json", "200_badjson"}
    IN  IF raised THEN Result("failed", "Unit tests failed", {}, FALSE)
        ELSE IF all_tests_passed THEN Result("success", "All tests passed", {}, TRUE)
        ELSE Result("warning", "Some tests failed", {}, TRUE)

\* run_stage_unittest
unittest_result(config, api, es, raised) ==
    LET config_valid == config = "present"
        api_valid    == api = "200"
        data_valid   == TRUE
        es_valid     == es \in {"200_json", "200_badjson"}
        all_tests_passed == config_valid /\ api_valid /\ data_valid
    IN  IF raised THEN Result("failed", "Unit tests failed", {}, FALSE)
        ELSE IF all_tests_passed THEN Result("success", "All tests passed", {}, TRUE)
        ELSE Result("warning", "Some tests failed", {}, TRUE)

\* The tally of the three probes of run_stage_deploy. The search-engine probe counts
\* only when the body of its 200 answer parses (es_response.json() precedes the += 1).
services_ok(es, kibana, rabbit) ==
    (IF es = "200_json" THEN 1 ELSE 0) + (IF kibana = "200" THEN 1 ELSE 0)
        + (IF rabbit = "200" THEN 1 ELSE 0)

\* run_stage_deploy
deploy_result(es, kibana, rabbit, raised) ==
    IF raised THEN Result("failed", "Deploy failed", {}, FALSE)
    ELSE IF services_ok(es, kibana, rabbit) >= 2
         THEN Result("success", "Deployment completed", {}, TRUE)
    ELSE Result("warning", "Deployment completed with issues", {}, TRUE)

\* How a POST to the search engine can end.
SendOutcomes == IF esReachable THEN {"2xx", "non2xx", "timeout", "error"}
                ELSE {"timeout", "error"}

\* Variant of send_notification: a POST that failed is tried once more.
send_notification_retry(outcome) ==
    [raised |-> FALSE, posts |-> IF outcome = "2xx" THEN 1 ELSE 2]

\* Variant of send_notification: a transport exception reaches the caller.
send_notification_raises(outcome) ==
    [raised |-> outcome \in {"timeout", "error"}, posts |-> 1]

\* send_notification: one POST, every exception swallowed.
send_notification(outcome) == [raised |-> FALSE, posts |-> 1]

\* Variant of loop_continues: the loop has no break.
loop_continues_always(success) == TRUE

\* The for loop of run_pipeline goes on after a stage iff the stage returned True.
loop_continues(success) == success

\* Variant of count_after: the stage is counted whatever it returned.
count_after_every(success, count) == count + 1

\* success_count after a stage returned `success`.
count_after(success, count) == IF success THEN count + 1 ELSE count

\* Variant of exit_status: the except clause of main catches SystemExit too.
exit_status_caught(success) == 1

\* main: sys.exit(0 if success else 1); SystemExit is no Exception, so the except
\* clause of main lets it through.
exit_status(success) == IF success THEN 0 ELSE 1

\* Variant of notified: the stage leaves the details of its notification out.
notified_default(r) == [details |-> "", files |-> {}]

\* The details a stage function passes to send_notification: the text (with the file
\* names in it) it has just recorded.
notified(r) == [details |-> r.details, files |-> r.files]

\* A stage function records its result, then notifies (pc = "notify"), then returns.
Record(stage, r, handler) ==
    /\ calls' = Append(calls, stage)
    /\ stage_results' = Put(stage_results, stage,
                            [status |-> r.status, details |-> r.details, files |-> r.files])
    /\ frame' = [stage |-> stage, status |-> r.status, details |-> notified(r).details,
                 files |-> notified(r).files, ret |-> r.ret, handler |-> handler]
    /\ pc' = "notify"

AtStage(name) == pc = "loop" /\ idx <= Len(Stages) /\ Stages[idx] = name
                 /\ fault # LoopFault(idx)

PipeRest == UNCHANGED <<runNo, esReachable, fault, idx, success_count, returns,
                        notifications,
                        lastOutcome, reported, verdict, critical, exit_code, prev>>

\* main: pipeline = SimpleViennaWeatherPipeline()
Construct ==
    /\ pc = "main" /\ fault # "construct"
    /\ \E t \in StartTimes : pipeline_id' = new_pipeline_id(t)
    /\ stage_results' = NoResults
    /\ pc' = "loop" /\ idx' = 1 /\ success_count' = 0
    /\ UNCHANGED <<runNo, esReachable, fault, env, calls, returns, frame, notifications,
                   lastOutcome, reported, verdict, critical, exit_code, prev>>
    /\ UNCHANGED monVars

\* An exception out of the constructor reaches the except clause of main.
ConstructRaises ==
    /\ pc = "main" /\ fault = "construct"
    /\ pc' = "except"
    /\ UNCHANGED <<runNo, esReachable, fault, env, stage_results, idx, success_count,
                   calls, returns, frame, notifications, lastOutcome, reported, verdict, critical,
                   exit_code, prev>>
    /\ UNCHANGED pipeline_id
    /\ UNCHANGED monVars

RunStageClone ==
    /\ AtStage("clone")
    /\ IF fault = "clone"
       THEN /\ Record("clone", clone_result(env.git_dir, env.clone_rc, env.missing, "ok", TRUE),
                      "except")
            /\ env' = env
       ELSE \E g \in Pick("git_dir") :
            \E rc \in (IF g = "absent" THEN Pick("clone_rc") ELSE {env.clone_rc}) :
            \E m \in (IF g = "present" \/ rc = "zero" THEN PickMissing ELSE {env.missing}) :
            \E h \in CloneHash :
               /\ Record("clone", clone_result(g, rc, m, h, FALSE), "try")
               /\ env' = [env EXCEPT !.git_dir = g, !.clone_rc = rc, !.missing = m]
    /\ PipeRest /\ UNCHANGED pipeline_id /\ UNCHANGED monVars

RunStageBuild ==
    /\ AtStage("build")
    /\ \E d \in BuildDeps : \E i \in BuildInstall : \E r \in BuildRequirements :
       \E k \in BuildDocker :
         Record("build", build_result(d, i, r, k, fault = "build"),
                IF fault = "build" THEN "except" ELSE "try")
    /\ env' = env
    /\ PipeRest /\ UNCHANGED pipeline_id /\ UNCHANGED monVars

\* project_root is the validation root when .git is present, so the configuration file
\* the clone stage found there is the one the unittest stage looks for.
PickConfig == IF env.git_dir = "present" /\ env.missing # UnsetFiles
              THEN {IF "pipeline-config.json" \in env.missing THEN "absent" ELSE "present"}
              ELSE Pick("config")

RunStageUnittest ==
    /\ AtStage("unittest")
    /\ IF fault = "unittest"
       THEN /\ Record("unittest", unittest_result(env.config, env.api, "error", TRUE),
                      "except")
            /\ env' = env
       ELSE \E c \in PickConfig : \E a \in Pick("api") :
            \E h \in (IF esReachable THEN Pick("es_health") ELSE {env.es_health}) :
               /\ Record("unittest", unittest_result(c, a, EsProbe(h), FALSE), "try")
               /\ env' = [env EXCEPT !.config = c, !.api = a, !.es_health = h]
    /\ PipeRest /\ UNCHANGED pipeline_id /\ UNCHANGED monVars

RunStageDeploy ==
    /\ AtStage("deploy")
    /\ IF fault = "deploy"
       THEN /\ Record("deploy", deploy_result("error", env.kibana, env.rabbitmq, TRUE),
                      "except")
            /\ env' = env
       ELSE \E h \in (IF esReachable THEN Pick("es_health") ELSE {env.es_health}) :
            \E k \in Pick("kibana") : \E r \in Pick("rabbitmq") :
               /\ Record("deploy", deploy_result(EsProbe(h), k, r, FALSE), "try")
               /\ env' = [env EXCEPT !.es_health = h, !.kibana = k, !.rabbitmq = r]
    /\ PipeRest /\ UNCHANGED pipeline_id /\ UNCHANGED monVars

Repeat(x, n) == [i \in 1..n |-> x]

\* send_notification, called by a stage function or by the summary of run_pipeline.
\* Were it to raise inside the try block of a stage, the except clause of the stage
\* would record `failed` and notify again; raised anywhere else it reaches main.
NotifyStep ==
    /\ pc = "notify"
    /\ \E o \in SendOutcomes :
         LET r == send_notification(o) IN
         /\ lastOutcome' = o
         /\ notifications' = notifications \o
               Repeat([pipeline_id |-> pipeline_id, stage |-> frame.stage,
                       status |-> frame.status, details |-> frame.details,
                       files |-> frame.files], r.posts)
         /\ IF ~r.raised
            THEN /\ pc' = IF frame.handler = "summary" THEN "returned" ELSE "stage_return"
                 /\ UNCHANGED <<frame, stage_results>>
            ELSE IF frame.handler = "try"
            THEN /\ pc' = "notify"
                 /\ frame' = [frame EXCEPT !.status = "failed", !.ret = FALSE,
                                           !.details = "stage failed", !.files = {},
                                           !.handler = "except"]
                 /\ stage_results' = Put(stage_results, frame.stage,
                       [status |-> "failed", details |-> "stage failed", files |-> {}])
            ELSE /\ pc' = "except"
                 /\ UNCHANGED <<frame, stage_results>>
    /\ UNCHANGED <<runNo, esReachable, fault, env, idx, success_count, calls, returns,
                   reported, verdict, critical, exit_code, prev>>
    /\ UNCHANGED pipeline_id
    /\ UNCHANGED monVars

\* run_pipeline, after success = stage_func(): count the stage and go on, or break.
StageReturn ==
    /\ pc = "stage_return"
    /\ returns' = Append(returns, frame.ret)
    /\ success_count' = count_after(frame.ret, success_count)
    /\ IF loop_continues(frame.ret)
       THEN /\ idx' = idx + 1
            /\ pc' = IF idx = Len(Stages) THEN "summary" ELSE "loop"
       ELSE /\ idx' = idx
            /\ pc' = "summary"
    /\ UNCHANGED <<runNo, esReachable, fault, env, stage_results, calls, frame,
                   notifications, lastOutcome, reported, verdict, critical, exit_code, prev>>
    /\ UNCHANGED pipeline_id
    /\ UNCHANGED monVars

\* run_pipeline, the summary: the count, the verdict and the final notification.
Summary ==
    /\ pc = "summary" /\ fault # "summary"
    /\ reported' = success_count
    /\ verdict' = IF success_count = Len(Stages) THEN "SUCCESS" ELSE "FAILED"
    /\ frame' = [stage |-> "pipeline",
                 status |-> IF success_count = Len(Stages) THEN "success" ELSE "failed",
                 details |-> IF success_count = Len(Stages) THEN "All stages completed"
                             ELSE "Failed at stage",
                 files |-> {},
                 ret |-> success_count = Len(Stages), handler |-> "summary"]
    /\ pc' = "notify"
    /\ UNCHANGED <<runNo, esReachable, fault, env, stage_results, idx, success_count,
                   calls, returns, notifications, lastOutcome, critical, exit_code, prev>>
    /\ UNCHANGED pipeline_id
    /\ UNCHANGED monVars

\* An exception raised by run_pipeline itself, outside the stage functions.
RunPipelineRaises ==
    /\ \/ pc = "loop" /\ idx <= Len(Stages) /\ fault = LoopFault(idx)
       \/ pc = "summary" /\ fault = "summary"
    /\ pc' = "except"
    /\ UNCHANGED <<runNo, esReachable, fault, env, stage_results, idx, success_count,
                   calls, returns, frame, notifications, lastOutcome, reported, verdict, critical,
                   exit_code, prev>>
    /\ UNCHANGED pipeline_id
    /\ UNCHANGED monVars

\* main: sys.exit(0 if success else 1)
MainExit ==
    /\ pc = "returned"
    /\ exit_code' = exit_status(frame.ret)
    /\ pc' = "exited"
    /\ UNCHANGED <<runNo, esReachable, fault, env, stage_results, idx, success_count,
                   calls, returns, frame, notifications, lastOutcome, reported, verdict, critical,
                   prev>>
    /\ UNCHANGED pipeline_id
    /\ UNCHANGED monVars

\* main: except Exception: print CRITICAL ERROR, sys.exit(1)
CriticalError ==
    /\ pc = "except"
    /\ critical' = TRUE
    /\ exit_code' = 1
    /\ pc' = "exited"
    /\ UNCHANGED <<runNo, esReachable, fault, env, stage_results, idx, success_count,
                   calls, returns, frame, notifications, lastOutcome, reported, verdict, prev>>
    /\ UNCHANGED pipeline_id
    /\ UNCHANGED monVars

\* What a run leaves behind for an observer.
Outcome == [results |-> stage_results, calls |-> calls, returns |-> returns,
            reported |-> reported, verdict |-> verdict, critical |-> critical, exit_code |-> exit_code,
            posts |-> Len(notifications), es |-> esReachable]
NoOutcome == [results |-> NoResults, calls |-> <<>>, returns |-> <<>>, reported |-> -1,
              verdict |-> "", critical |-> FALSE, exit_code |-> -1, posts |-> 0, es |-> FALSE]

\* The script is run again in the same environment, the search engine's reachability
\* being the one thing that changed.
Rerun ==
    /\ pc = "exited" /\ runNo < MaxRuns
    /\ prev' = Outcome
    /\ runNo' = runNo + 1
    /\ esReachable' = ~esReachable
    /\ pc' = "main"
    /\ stage_results' = NoResults /\ idx' = 1 /\ success_count' = 0
    /\ calls' = <<>> /\ returns' = <<>> /\ frame' = NoFrame /\ notifications' = <<>>
    /\ pipeline_id' = <<>>
    /\ lastOutcome' = "none" /\ reported' = -1 /\ verdict' = ""
    /\ critical' = FALSE /\ exit_code' = -1
    /\ UNCHANGED <<fault, env>>
    /\ UNCHANGED monVars

PipeInit ==
    /\ pc = "main" /\ runNo = 1
    /\ esReachable \in BOOLEAN
    /\ fault \in FaultPoints
    /\ env = InitEnv
    /\ stage_results = NoResults /\ idx = 1 /\ success_count = 0
    /\ calls = <<>> /\ returns = <<>> /\ frame = NoFrame /\ notifications = <<>>
    /\ pipeline_id = <<>>
    /\ lastOutcome = "none" /\ reported = -1 /\ verdict = ""
    /\ critical = FALSE /\ exit_code = -1
    /\ prev = NoOutcome

PipeNext ==
    \/ Construct \/ ConstructRaises
    \/ RunStageClone \/ RunStageBuild \/ RunStageUnittest \/ RunStageDeploy
    \/ NotifyStep \/ StageReturn \/ Summary \/ RunPipelineRaises
    \/ MainExit \/ CriticalError \/ Rerun

(***************************************************************************)
(* weather_auto_rabbitmq.py                                                *)
(***************************************************************************)
Observations == {"obs_a", "obs_b"}      \* the truthy dicts get_vienna_weather can return
None == "None"

\* No function has been called on its own.
NoUnit == [fn |-> "none"]

RABBITMQ_EXCHANGE == "weather_exchange"
RABBITMQ_ROUTING_KEY == "vienna.weather.hourly"

\* A publisher object: self.connection ("none", or the state of the connection it
\* refers to), whether self.channel is set, and what was declared on that channel;
\* with it the steps its last connect attempt completed, in order, and the number of
\* connections it opened, refers to no longer and never closed.
NewPublisher == [constructed |-> TRUE, connection |-> "none", channel |-> FALSE,
                 declared |-> {}, steps |-> <<>>, dropped |-> 0]
NoPublisher == [constructed |-> FALSE, connection |-> "none", channel |-> FALSE,
                declared |-> {}, steps |-> <<>>, dropped |-> 0]

\* The steps of one attempt of connect, in order; an attempt fails at one of them or
\* at none (0).
ConnectSteps == <<"connection", "channel", "exchange", "queue", "binding">>
FailPoints == 0..Len(ConnectSteps)

\* Variant of StepsDone: connect returns True before the queue is bound.
StepsDone_before_bind(failAt) == IF failAt = 0 THEN Len(ConnectSteps) - 1 ELSE failAt - 1

\* The number of steps an attempt completes: all of them, or those before the one
\* that raised.
StepsDone(failAt) == IF failAt = 0 THEN Len(ConnectSteps) ELSE failAt - 1

\* The publisher after an attempt that failed at step failAt (or at none): an
\* assignment that was reached stays, also when a later step of the attempt raised;
\* the except clause closes nothing, and the assignment of a new connection to
\* self.connection leaves the one it referred to before as it was.
after_attempt(p, failAt) ==
    LET done == StepsDone(failAt) IN
    [p EXCEPT !.connection = IF done >= 1 THEN "open" ELSE @,
              !.channel    = IF done >= 2 THEN TRUE ELSE @,
              !.declared   = IF done >= 2
                             THEN {ConnectSteps[i] : i \in 3..done}
                             ELSE @,
              !.steps      = SubSeq(ConnectSteps, 1, done),
              !.dropped    = IF done >= 1 /\ p.connection = "open" THEN @ + 1 ELSE @]

\* Variant of more_attempts: one attempt too many.
more_attempts_off_by_one(a, retries) == a <= retries

\* for attempt in range(max_retries)
more_attempts(a, retries) == a < retries

\* Variant of waits_after_failure: the wait follows every failed attempt.
waits_after_every_failure(a, retries) == TRUE

\* if attempt < max_retries - 1: time.sleep(5)
waits_after_failure(a, retries) == a < retries - 1

\* Variant of publish_weather_data: a publish that raised is reported as sent.
publish_weather_data_reports_sent(channel, outcome) ==
    [raised |-> FALSE, broker_calls |-> IF channel THEN 1 ELSE 0, ret |-> channel,
     exchange |-> RABBITMQ_EXCHANGE, routing_key |-> RABBITMQ_ROUTING_KEY]

\* publish_weather_data: False without a channel; otherwise one basic_publish, True
\* if it returns and False if it raises; the except clause lets nothing through.
publish_weather_data(channel, outcome) ==
    [raised |-> FALSE,
     broker_calls |-> IF channel THEN 1 ELSE 0,
     ret |-> channel /\ outcome = "ok",
     exchange |-> RABBITMQ_EXCHANGE, routing_key |-> RABBITMQ_ROUTING_KEY]

\* How basic_publish can end on the publisher's connection.
PublishOutcomes(p) == IF p.connection = "open" THEN {"ok", "raises"} ELSE {"raises"}

\* Variant of close_issued: is_closed is not consulted.
close_issued_unchecked(connection) == connection # "none"

\* close: if self.connection and not self.connection.is_closed
close_issued(connection) == connection = "open"

\* The connection after close: closed by a close that returned; open or closed after
\* one that raised; as it was when none was issued.
AfterClose(connection, outcome) ==
    IF ~close_issued(connection) THEN {connection}
    ELSE IF outcome = "ok" THEN {"closed"} ELSE {"open", "closed"}

\* The last two calls of the publisher's methods that have returned.
Last2(calls2) == IF Len(calls2) > 2 THEN Tail(calls2) ELSE calls2
\* before, chan: self.connection and self.channel when the call began; outcome: how
\* the broker request of the call ended; sent: the broker requests the call issued;
\* closed: the call closed the connection.
Call(op, before, chan, outcome, ret, raised, sent, closed) ==
    [op |-> op, before |-> before, chan |-> chan, outcome |-> outcome, ret |-> ret,
     raised |-> raised, sent |-> sent, closed |-> closed]

\* Variant of after_fetch: an observation goes to the broker, past the logger.
after_fetch_publish_first(data) == IF data # None THEN "publish" ELSE "sleep"

\* Variant of after_fetch: a cycle without observation goes straight to the next.
after_fetch_continue(data) == IF data # None THEN "log" ELSE "loop"

\* `if weather_data:` sends a cycle to the logger, `None` sends it to the sleep.
after_fetch(data) == IF data # None THEN "log" ELSE "sleep"

\* Variant of after_log: publish is called whatever the connectivity flag.
after_log_unguarded(connected) == "publish"

\* `if rabbitmq_connected:` after save_to_log.
after_log(connected) == IF connected THEN "publish" ELSE "local_only"

\* Variant of log_entry: the entry does not carry the counter it was given.
log_entry_first(data, check_number) == [check_number |-> 1, data |-> data]

\* The LogEntry that save_to_log builds.
log_entry(data, check_number) == [check_number |-> check_number, data |-> data]

\* How a call of save_to_log can end: the line is written; opening or writing the
\* file raises; building the entry from the observation raises.
LogOutcomes == {"written", "io_error", "build_error"}

\* Variant of save_to_log: the body is not inside a try statement.
save_to_log_unguarded(outcome) ==
    [raised |-> outcome # "written", appended |-> outcome = "written"]

\* save_to_log: the whole body is inside try/except Exception, which only prints.
save_to_log(outcome) == [raised |-> FALSE, appended |-> outcome = "written"]

\* Variant of log_after: the file is opened for writing, not for appending.
log_after_truncating(lines, entry) == <<entry>>

\* open("vienna_weather_log.json", "a") and f.write of one line
log_after(lines, entry) == Append(lines, entry)

\* API_KEY as the module has it, and the placeholder the guard compares it with.
API_KEY == "7ea63a60ef095d75baf077171165c148"
Keys == {API_KEY, "YOUR_API_KEY_HERE"}

\* How a call of the weather API can end: an observation; a transport error or a
\* status that is no success (both a RequestException, from requests.get and from
\* raise_for_status); a body that lacks a key the report prints (KeyError); a body of
\* another shape, such as an empty `weather` list or a JSON array (IndexError,
\* TypeError).
FetchOutcomes == {"data", "transport_error", "http_error", "key_error", "other_error"}

\* Variant of get_vienna_weather: there is no except KeyError clause.
get_vienna_weather_key_uncaught(key, outcome, d) ==
    IF key = "YOUR_API_KEY_HERE" THEN [raised |-> FALSE, data |-> None, requests |-> 0]
    ELSE IF outcome = "data" THEN [raised |-> FALSE, data |-> d, requests |-> 1]
    ELSE IF outcome \in {"transport_error", "http_error"}
         THEN [raised |-> FALSE, data |-> None, requests |-> 1]
    ELSE [raised |-> TRUE, data |-> None, requests |-> 1]

\* Variant of get_vienna_weather: the key is not compared with the placeholder.
get_vienna_weather_unguarded(key, outcome, d) ==
    IF outcome = "data" THEN [raised |-> FALSE, data |-> d, requests |-> 1]
    ELSE IF outcome \in {"transport_error", "http_error", "key_error"}
         THEN [raised |-> FALSE, data |-> None, requests |-> 1]
    ELSE [raised |-> TRUE, data |-> None, requests |-> 1]

\* get_vienna_weather: the guard on the key, then one requests.get; except
\* RequestException and except KeyError return None, nothing else is caught.
get_vienna_weather(key, outcome, d) ==
    IF key = "YOUR_API_KEY_HERE" THEN [raised |-> FALSE, data |-> None, requests |-> 0]
    ELSE IF outcome = "data" THEN [raised |-> FALSE, data |-> d, requests |-> 1]
    ELSE IF outcome \in {"transport_error", "http_error", "key_error"}
         THEN [raised |-> FALSE, data |-> None, requests |-> 1]
    ELSE [raised |-> TRUE, data |-> None, requests |-> 1]

\* Variant of flag_after_publish: a failed publish marks the broker as lost.
flag_after_publish_cleared(connected, success) == connected /\ success

\* The loop does not assign rabbitmq_connected: `success` is only printed.
flag_after_publish(connected, success) == connected

\* Variant of finally_closes: the cleanup sits in the KeyboardInterrupt handler.
finally_closes_on_interrupt(connected, how) == connected /\ how = "interrupt"

\* Variant of finally_closes: the cleanup closes the publisher without asking.
finally_closes_always(connected, how) == TRUE

\* finally: if rabbitmq_connected: publisher.close()
finally_closes(connected, how) == connected

\* Variant of constructs_publisher: the publisher is made whatever the manager said.
constructs_publisher_always(ensured) == TRUE

\* if not rabbitmq_manager.ensure_rabbitmq_running(): ... else: publisher = ...
constructs_publisher(ensured) == ensured

DefaultMaxRetries == 3      \* def connect(self, max_retries=3)
SleepSeconds == 3600        \* time.sleep(3600)

MonRest == UNCHANGED <<pipeVars, unit, top>>

\* Nothing printed by the interrupt handler yet, the process still running.
NoTop == [at |-> "none", summary |-> -1, exit |-> "running", status |-> -1,
          caught |-> FALSE, critical |-> FALSE]

\* Variant of summary_total: the cycle that was interrupted is not counted.
summary_total_completed(count) == IF count > 0 THEN count - 1 ELSE 0

\* print(f"Total checks performed: {check_count}")
summary_total(count) == count

\* Variant of process_exit: the script catches what leaves the monitor function.
process_exit_caught(how) ==
    IF how = "interrupt"
    THEN [exit |-> "returned", status |-> 0, caught |-> FALSE, critical |-> FALSE]
    ELSE [exit |-> "handled", status |-> 1, caught |-> TRUE, critical |-> TRUE]

\* if __name__ == "__main__": hourly_weather_monitoring(), with no try statement
\* around the call: after the interrupt handler the function returns and the script
\* ends with status 0; an exception that left the loop leaves the script as well, and
\* the interpreter prints its traceback and exits with status 1.
process_exit(how) ==
    IF how = "interrupt"
    THEN [exit |-> "returned", status |-> 0, caught |-> FALSE, critical |-> FALSE]
    ELSE [exit |-> "traceback", status |-> 1, caught |-> FALSE, critical |-> FALSE]

\* What connect leaves to its caller: the monitor makes the result its connectivity
\* flag and enters the loop; the driver of the publisher takes note of it.
ConnectReturns(ret, p) ==
    /\ pcalls' = Last2(Append(pcalls,
                   Call("connect", publisher.connection, publisher.channel, "none", ret,
                        FALSE, <<>>, FALSE)))
    /\ IF mode = "monitor"
       THEN /\ rabbitmq_connected' = ret /\ first_flag' = ret
            /\ mpc' = "loop"
       ELSE /\ UNCHANGED <<rabbitmq_connected, first_flag>>
            /\ mpc' = "idle"

\* hourly_weather_monitoring, the startup sequence: ensure_rabbitmq_running, then, if
\* it succeeded, the publisher and the call of its connect().
Startup ==
    /\ mpc = "startup" /\ mode = "monitor"
    /\ \E ensured \in BOOLEAN :
         /\ ensure_ok' = IF ensured THEN "ok" ELSE "failed"
         /\ IF ~constructs_publisher(ensured)
            THEN /\ rabbitmq_connected' = FALSE /\ first_flag' = FALSE
                 /\ publisher' = NoPublisher
                 /\ mpc' = "loop"
                 /\ UNCHANGED <<max_retries, attempt, ctrace, connect_calls>>
            ELSE /\ publisher' = NewPublisher
                 /\ max_retries' = DefaultMaxRetries
                 /\ attempt' = 0 /\ ctrace' = <<>>
                 /\ connect_calls' = connect_calls + 1
                 /\ mpc' = "connect"
                 /\ UNCHANGED <<rabbitmq_connected, first_flag>>
    /\ check_count' = 0
    /\ UNCHANGED <<mode, weather_data, log, published, cycle, fetched, stopped, pcalls,
                   close_calls, sleeps, fetch_calls, lost, ncalls>>
    /\ MonRest

\* connect, one pass of the loop body: the attempt, and on failure the except clause.
ConnectAttempt ==
    /\ mpc = "connect" /\ more_attempts(attempt, max_retries)
    /\ \E failAt \in FailPoints :
         /\ publisher' = after_attempt(publisher, failAt)
         /\ IF failAt = 0
            THEN /\ ctrace' = Append(ctrace, "ok")
                 /\ attempt' = attempt
                 /\ ConnectReturns(TRUE, publisher')
            ELSE /\ ctrace' = Append(ctrace, "failed")
                 /\ UNCHANGED <<pcalls, rabbitmq_connected, first_flag>>
                 /\ IF waits_after_failure(attempt, max_retries)
                    THEN mpc' = "connect_wait" /\ attempt' = attempt
                    ELSE mpc' = "connect" /\ attempt' = attempt + 1
    /\ UNCHANGED <<mode, ensure_ok, max_retries, connect_calls, check_count, weather_data,
                   log, published, cycle, fetched, stopped, close_calls, sleeps,
                   fetch_calls, lost, ncalls>>
    /\ MonRest

\* connect: time.sleep(5) before the next attempt
ConnectWait ==
    /\ mpc = "connect_wait"
    /\ ctrace' = Append(ctrace, "wait")
    /\ attempt' = attempt + 1
    /\ mpc' = "connect"
    /\ UNCHANGED <<mode, ensure_ok, rabbitmq_connected, first_flag, publisher, max_retries,
                   connect_calls, check_count, weather_data, log, published, cycle,
                   fetched, stopped, pcalls, close_calls, sleeps, fetch_calls, lost,
                   ncalls>>
    /\ MonRest

\* connect: the loop is exhausted, return False
ConnectGiveUp ==
    /\ mpc = "connect" /\ ~more_attempts(attempt, max_retries)
    /\ ConnectReturns(FALSE, publisher)
    /\ UNCHANGED <<mode, ensure_ok, publisher, max_retries, attempt, ctrace,
                   connect_calls, check_count, weather_data, log, published, cycle,
                   fetched, stopped, close_calls, sleeps, fetch_calls, lost, ncalls>>
    /\ MonRest

\* while True: check_count += 1
BeginCycle ==
    /\ mpc = "loop" /\ check_count < MaxChecks
    /\ check_count' = check_count + 1
    /\ cycle' = <<>>
    /\ mpc' = "fetch"
    /\ UNCHANGED <<mode, ensure_ok, rabbitmq_connected, first_flag, publisher, max_retries,
                   attempt, ctrace, connect_calls, weather_data, log, published, fetched,
                   stopped, pcalls, close_calls, sleeps, fetch_calls, lost, ncalls>>
    /\ MonRest

\* weather_data = get_vienna_weather(); an exception the function does not catch
\* passes the try statement of the loop, which handles KeyboardInterrupt only.
Fetch ==
    /\ mpc = "fetch"
    /\ fetch_calls' = fetch_calls + 1
    /\ \E o \in FetchOutcomes : \E d \in Observations :
         LET r == get_vienna_weather(API_KEY, o, d) IN
         IF ~r.raised
         THEN /\ weather_data' = r.data
              /\ fetched' = IF r.data # None THEN fetched \cup {check_count} ELSE fetched
              /\ mpc' = after_fetch(r.data)
              /\ stopped' = stopped
         ELSE /\ mpc' = "finally" /\ stopped' = "fetch_fault"
              /\ UNCHANGED <<weather_data, fetched>>
    /\ UNCHANGED <<mode, ensure_ok, rabbitmq_connected, first_flag, publisher, max_retries,
                   attempt, ctrace, connect_calls, check_count, log, published, cycle,
                   pcalls, close_calls, sleeps, lost, ncalls>>
    /\ MonRest

\* save_to_log(weather_data, check_count): the line is appended unless building the
\* entry or writing the file raises, which the function reports and swallows.
SaveToLog ==
    /\ mpc = "log"
    /\ cycle' = Append(cycle, [op |-> "append", check_number |-> check_count,
                               data |-> weather_data])
    /\ \E o \in LogOutcomes :
         LET r == save_to_log(o) IN
         /\ log' = IF r.appended THEN log_after(log, log_entry(weather_data, check_count))
                   ELSE log
         /\ lost' = IF r.appended THEN lost ELSE lost \cup {check_count}
         /\ IF r.raised
            THEN mpc' = "finally" /\ stopped' = "log_fault"
            ELSE mpc' = after_log(rabbitmq_connected) /\ stopped' = stopped
    /\ UNCHANGED <<mode, ensure_ok, rabbitmq_connected, first_flag, publisher, max_retries,
                   attempt, ctrace, connect_calls, check_count, weather_data, published,
                   fetched, pcalls, close_calls, sleeps, fetch_calls, ncalls>>
    /\ MonRest

\* The call publisher.publish_weather_data(data), by the loop or by the driver, with
\* basic_publish ending as o.
PublishCall(data, o) ==
    LET r == publish_weather_data(publisher.channel, o) IN
    /\ published' = published \o
          [i \in 1..(IF r.ret THEN r.broker_calls ELSE 0) |->
              [data |-> data, exchange |-> r.exchange, routing_key |-> r.routing_key]]
    /\ pcalls' = Last2(Append(pcalls,
          Call("publish", publisher.connection, publisher.channel, o, r.ret,
               r.raised,
               [i \in 1..r.broker_calls |->
                   [request |-> "basic_publish", exchange |-> r.exchange,
                    routing_key |-> r.routing_key]],
               FALSE)))

\* success = publisher.publish_weather_data(weather_data); a false result is a warning.
Publish ==
    /\ mpc = "publish"
    /\ cycle' = Append(cycle, [op |-> "publish", check_number |-> check_count,
                               data |-> weather_data])
    /\ \E o \in PublishOutcomes(publisher) :
         /\ PublishCall(weather_data, o)
         /\ rabbitmq_connected' =
               flag_after_publish(rabbitmq_connected,
                                  publish_weather_data(publisher.channel, o).ret)
    /\ mpc' = "sleep"
    /\ UNCHANGED <<mode, ensure_ok, first_flag, publisher, max_retries, attempt, ctrace,
                   connect_calls, check_count, weather_data, log, fetched, stopped,
                   close_calls, sleeps, fetch_calls, lost, ncalls>>
    /\ MonRest

\* else: "RabbitMQ not available, data saved locally only"
LocalOnly ==
    /\ mpc = "local_only"
    /\ mpc' = "sleep"
    /\ UNCHANGED <<mode, ensure_ok, rabbitmq_connected, first_flag, publisher, max_retries,
                   attempt, ctrace, connect_calls, check_count, weather_data, log,
                   published, cycle, fetched, stopped, pcalls, close_calls, sleeps,
                   fetch_calls, lost, ncalls>>
    /\ MonRest

\* time.sleep(3600)
Sleep ==
    /\ mpc = "sleep"
    /\ sleeps' = Append(sleeps, SleepSeconds)
    /\ mpc' = "loop"
    /\ UNCHANGED <<mode, ensure_ok, rabbitmq_connected, first_flag, publisher, max_retries,
                   attempt, ctrace, connect_calls, check_count, weather_data, log,
                   published, cycle, fetched, stopped, pcalls, close_calls, fetch_calls,
                   lost, ncalls>>
    /\ MonRest

InLoop == mpc \in {"loop", "fetch", "log", "publish", "local_only", "sleep"}

\* except KeyboardInterrupt: the operator stops the loop, wherever it is.
KeyboardInterrupt ==
    /\ InLoop
    /\ stopped' = "interrupt"
    /\ top' = [top EXCEPT !.at = mpc, !.summary = summary_total(check_count)]
    /\ mpc' = "finally"
    /\ UNCHANGED <<mode, ensure_ok, rabbitmq_connected, first_flag, publisher, max_retries,
                   attempt, ctrace, connect_calls, check_count, weather_data, log,
                   published, cycle, fetched, pcalls, close_calls, sleeps, fetch_calls,
                   lost, ncalls>>
    /\ UNCHANGED <<pipeVars, unit>>

\* The call publisher.close(), by the cleanup or by the driver.
CloseCall ==
    \E o \in {"ok", "raises"} : \E c \in AfterClose(publisher.connection, o) :
       /\ publisher' = [publisher EXCEPT !.connection = c]
       /\ pcalls' = Last2(Append(pcalls,
             Call("close", publisher.connection, publisher.channel, o, FALSE, FALSE,
                  IF close_issued(publisher.connection)
                  THEN <<[request |-> "close"]>> ELSE <<>>,
                  publisher.connection = "open" /\ c = "closed")))

\* finally: if rabbitmq_connected: publisher.close()
Finally ==
    /\ mpc = "finally"
    /\ IF finally_closes(rabbitmq_connected, stopped)
       THEN CloseCall /\ close_calls' = close_calls + 1
       ELSE UNCHANGED <<publisher, pcalls, close_calls>>
    /\ mpc' = "done"
    /\ UNCHANGED <<mode, ensure_ok, rabbitmq_connected, first_flag, max_retries, attempt,
                   ctrace, connect_calls, check_count, weather_data, log, published,
                   cycle, fetched, stopped, sleeps, fetch_calls, lost, ncalls>>
    /\ MonRest

\* The end of the script, after hourly_weather_monitoring is left.
MonitorExit ==
    /\ mpc = "done" /\ mode = "monitor" /\ top.exit = "running"
    /\ LET e == process_exit(stopped) IN
         top' = [top EXCEPT !.exit = e.exit, !.status = e.status, !.caught = e.caught,
                            !.critical = e.critical]
    /\ UNCHANGED <<mpc, mode, ensure_ok, rabbitmq_connected, first_flag, publisher,
                   max_retries, attempt, ctrace, connect_calls, check_count, weather_data,
                   log, published, cycle, fetched, stopped, pcalls, close_calls, sleeps,
                   fetch_calls, lost, ncalls>>
    /\ UNCHANGED <<pipeVars, unit>>

MonInit ==
    /\ mpc = "startup" /\ mode = "monitor"
    /\ ensure_ok = "none"
    /\ rabbitmq_connected = FALSE /\ first_flag = FALSE
    /\ publisher = NoPublisher
    /\ max_retries = 0 /\ attempt = 0 /\ ctrace = <<>> /\ connect_calls = 0
    /\ check_count = 0 /\ weather_data = None
    /\ log = <<>> /\ published = <<>> /\ cycle = <<>> /\ fetched = {}
    /\ stopped = "running"
    /\ pcalls = <<>> /\ close_calls = 0 /\ sleeps = <<>> /\ fetch_calls = 0
    /\ lost = {} /\ ncalls = 0
    /\ unit = NoUnit /\ top = NoTop

MonNext ==
    \/ Startup \/ ConnectAttempt \/ ConnectWait \/ ConnectGiveUp
    \/ BeginCycle \/ Fetch \/ SaveToLog \/ Publish \/ LocalOnly \/ Sleep
    \/ KeyboardInterrupt \/ Finally \/ MonitorExit

(***************************************************************************)
(* WeatherRabbitMQPublisher on its own: a caller that holds one publisher   *)
(* and calls connect, publish_weather_data and close in any order.         *)
(***************************************************************************)
DriverRest ==
    /\ ncalls' = ncalls + 1
    /\ UNCHANGED <<mode, ensure_ok, first_flag, check_count, weather_data, log, cycle,
                   fetched, stopped, close_calls, sleeps, fetch_calls, lost>>
    /\ MonRest

\* publisher.connect(max_retries = n)
DriverConnect ==
    /\ mpc = "idle" /\ ncalls < MaxCalls
    /\ \E n \in 0..MaxRetries : max_retries' = n
    /\ attempt' = 0 /\ ctrace' = <<>>
    /\ connect_calls' = connect_calls + 1
    /\ mpc' = "connect"
    /\ UNCHANGED <<rabbitmq_connected, publisher, published, pcalls>>
    /\ DriverRest

\* publisher.publish_weather_data(d)
DriverPublish ==
    /\ mpc = "idle" /\ ncalls < MaxCalls
    /\ \E d \in Observations : \E o \in PublishOutcomes(publisher) : PublishCall(d, o)
    /\ mpc' = "idle"
    /\ UNCHANGED <<rabbitmq_connected, publisher, max_retries, attempt, ctrace,
                   connect_calls>>
    /\ DriverRest

\* publisher.close()
DriverClose ==
    /\ mpc = "idle" /\ ncalls < MaxCalls
    /\ CloseCall
    /\ mpc' = "idle"
    /\ UNCHANGED <<rabbitmq_connected, max_retries, attempt, ctrace, connect_calls,
                   published>>
    /\ DriverRest

PublisherInit ==
    /\ PipeInit /\ esReachable = TRUE /\ fault = "none"
    /\ mpc = "idle" /\ mode = "driver"
    /\ ensure_ok = "none"
    /\ rabbitmq_connected = FALSE /\ first_flag = FALSE
    /\ publisher = NewPublisher
    /\ max_retries = 0 /\ attempt = 0 /\ ctrace = <<>> /\ connect_calls = 0
    /\ check_count = 0 /\ weather_data = None
    /\ log = <<>> /\ published = <<>> /\ cycle = <<>> /\ fetched = {}
    /\ stopped = "running"
    /\ pcalls = <<>> /\ close_calls = 0 /\ sleeps = <<>> /\ fetch_calls = 0
    /\ lost = {} /\ ncalls = 0
    /\ unit = NoUnit /\ top = NoTop

PublisherNext ==
    \/ DriverConnect \/ DriverPublish \/ DriverClose
    \/ ConnectAttempt \/ ConnectWait \/ ConnectGiveUp

(***************************************************************************)
(* RabbitMQManager: the container runtime is reached through subprocess.run *)
(* only, so each method is a function of how its commands end.             *)
(***************************************************************************)
\* RABBITMQ_CONTAINER_NAME, shortened to two characters so that listings stay short.
container_name == <<"r", "q">>

\* The characters of a listing: those of the name, another one, and the line end.
Alphabet == {"r", "q", "x", "nl"}

RECURSIVE SeqsUpTo(_)
SeqsUpTo(n) ==
    IF n = 0 THEN {<<>>}
    ELSE LET shorter == SeqsUpTo(n - 1)
         IN  shorter \cup {Append(o, c) : o \in {x \in shorter : Len(x) = n - 1},
                                          c \in Alphabet}

\* Every output a listing command can print, and a few of them: nothing, the name on
\* a line, a longer name that contains it, another name.
Outputs == SeqsUpTo(MaxOut)
SomeOutputs == {<<>>, <<"r", "q", "nl">>, <<"x", "r", "q">>, <<"x", "nl">>}

\* How subprocess.run can end: the process exits with a return code and an output,
\* subprocess.TimeoutExpired, FileNotFoundError, or another exception (PermissionError).
Exit(rc, out) == [kind |-> "exit", rc |-> rc, stdout |-> out]
Fails(kind) == [kind |-> kind, rc |-> -1, stdout |-> <<>>]
ProcessFailures == {Fails("timeout"), Fails("absent"), Fails("error")}
Runs == {Exit(rc, <<>>) : rc \in {0, 1}} \cup ProcessFailures
Listings(outs) == {Exit(rc, o) : rc \in {0, 1}, o \in outs} \cup ProcessFailures

\* Python's `name in stdout` on strings.
Contains(out, name) ==
    \E i \in 1..(Len(out) - Len(name) + 1) : SubSeq(out, i, i + Len(name) - 1) = name

\* Variant of is_docker_available: the return code is not looked at.
is_docker_available_any_exit(p) ==
    IF p.kind = "exit" THEN [raised |-> FALSE, ret |-> TRUE, cmds |-> <<"version">>]
    ELSE IF p.kind \in {"timeout", "absent"}
         THEN [raised |-> FALSE, ret |-> FALSE, cmds |-> <<"version">>]
    ELSE [raised |-> TRUE, ret |-> FALSE, cmds |-> <<"version">>]

\* is_docker_available: docker --version; except (TimeoutExpired, FileNotFoundError).
is_docker_available(p) ==
    IF p.kind = "exit" THEN [raised |-> FALSE, ret |-> p.rc = 0, cmds |-> <<"version">>]
    ELSE IF p.kind \in {"timeout", "absent"}
         THEN [raised |-> FALSE, ret |-> FALSE, cmds |-> <<"version">>]
    ELSE [raised |-> TRUE, ret |-> FALSE, cmds |-> <<"version">>]

\* Variant of is_rabbitmq_running: the output has to be the name and nothing else.
is_rabbitmq_running_exact(p) ==
    IF p.kind = "exit"
    THEN [raised |-> FALSE, cmds |-> <<"ps">>,
          ret |-> p.stdout \in {container_name, Append(container_name, "nl")}]
    ELSE IF p.kind \in {"timeout", "absent"}
         THEN [raised |-> FALSE, ret |-> FALSE, cmds |-> <<"ps">>]
    ELSE [raised |-> TRUE, ret |-> FALSE, cmds |-> <<"ps">>]

\* is_rabbitmq_running: docker ps --filter name=...; the return code is not read.
is_rabbitmq_running(p) ==
    IF p.kind = "exit"
    THEN [raised |-> FALSE, ret |-> Contains(p.stdout, container_name), cmds |-> <<"ps">>]
    ELSE IF p.kind \in {"timeout", "absent"}
         THEN [raised |-> FALSE, ret |-> FALSE, cmds |-> <<"ps">>]
    ELSE [raised |-> TRUE, ret |-> FALSE, cmds |-> <<"ps">>]

\* Variant of start_rabbitmq: a container that does not start is created anew.
start_rabbitmq_recreates(psa, mut, mut2) ==
    IF psa.kind # "exit"
    THEN [raised |-> FALSE, ret |-> FALSE, cmds |-> <<"ps_all">>, slept |-> 0]
    ELSE IF Contains(psa.stdout, container_name)
    THEN IF mut.kind = "exit" /\ mut.rc = 0
         THEN [raised |-> FALSE, ret |-> TRUE, cmds |-> <<"ps_all", "start">>, slept |-> 0]
         ELSE [raised |-> FALSE, ret |-> mut2.kind = "exit" /\ mut2.rc = 0,
               cmds |-> <<"ps_all", "start", "run">>,
               slept |-> IF mut2.kind = "exit" /\ mut2.rc = 0 THEN 10 ELSE 0]
    ELSE [raised |-> FALSE, ret |-> mut.kind = "exit" /\ mut.rc = 0,
          cmds |-> <<"ps_all", "run">>,
          slept |-> IF mut.kind = "exit" /\ mut.rc = 0 THEN 10 ELSE 0]

\* start_rabbitmq: docker ps -a, then docker start on a container that exists or
\* docker run for a new one (mut is how that command ends; mut2 is not read); the
\* except clauses turn every exception of the three commands into False.
start_rabbitmq(psa, mut, mut2) ==
    IF psa.kind # "exit"
    THEN [raised |-> FALSE, ret |-> FALSE, cmds |-> <<"ps_all">>, slept |-> 0]
    ELSE IF Contains(psa.stdout, container_name)
    THEN [raised |-> FALSE, ret |-> mut.kind = "exit" /\ mut.rc = 0,
          cmds |-> <<"ps_all", "start">>, slept |-> 0]
    ELSE [raised |-> FALSE, ret |-> mut.kind = "exit" /\ mut.rc = 0,
          cmds |-> <<"ps_all", "run">>,
          slept |-> IF mut.kind = "exit" /\ mut.rc = 0 THEN 10 ELSE 0]

\* Variant of ensure_rabbitmq_running: the broker is started without asking whether
\* it runs.
ensure_rabbitmq_running_starts(v, ps, psa, mut) ==
    LET a == is_docker_available(v)
        b == start_rabbitmq(psa, mut, mut)
    IN  IF a.raised THEN [raised |-> TRUE, ret |-> FALSE, cmds |-> a.cmds, slept |-> 0]
        ELSE IF ~a.ret THEN [raised |-> FALSE, ret |-> FALSE, cmds |-> a.cmds, slept |-> 0]
        ELSE [raised |-> FALSE, ret |-> b.ret, cmds |-> a.cmds \o b.cmds,
              slept |-> b.slept]

\* ensure_rabbitmq_running: the three methods in turn; an exception that
\* is_docker_available or is_rabbitmq_running lets through is let through.
ensure_rabbitmq_running(v, ps, psa, mut) ==
    LET a == is_docker_available(v)
        r == is_rabbitmq_running(ps)
        b == start_rabbitmq(psa, mut, mut)
    IN  IF a.raised THEN [raised |-> TRUE, ret |-> FALSE, cmds |-> a.cmds, slept |-> 0]
        ELSE IF ~a.ret THEN [raised |-> FALSE, ret |-> FALSE, cmds |-> a.cmds, slept |-> 0]
        ELSE IF r.raised
             THEN [raised |-> TRUE, ret |-> FALSE, cmds |-> a.cmds \o r.cmds, slept |-> 0]
        ELSE IF r.ret
             THEN [raised |-> FALSE, ret |-> TRUE, cmds |-> a.cmds \o r.cmds, slept |-> 0]
        ELSE [raised |-> FALSE, ret |-> b.ret, cmds |-> a.cmds \o r.cmds \o b.cmds,
              slept |-> b.slept]

\* A call of one function on its own leaves the monitor and the pipeline alone.
UnitRest ==
    UNCHANGED <<pipeVars, mpc, rabbitmq_connected, publisher, check_count, weather_data,
                log, published, cycle, fetched, first_flag, stopped, mode, ensure_ok,
                max_retries, attempt, ctrace, connect_calls, pcalls, close_calls, sleeps,
                fetch_calls, lost, ncalls, top>>

\* RabbitMQManager().is_docker_available()
CallIsDockerAvailable ==
    /\ unit = NoUnit
    /\ \E v \in Runs :
         unit' = [fn |-> "is_docker_available", v |-> v, out |-> is_docker_available(v)]
    /\ UnitRest

\* RabbitMQManager().is_rabbitmq_running()
CallIsRabbitmqRunning ==
    /\ unit = NoUnit
    /\ \E ps \in Listings(Outputs) :
         unit' = [fn |-> "is_rabbitmq_running", ps |-> ps, out |-> is_rabbitmq_running(ps)]
    /\ UnitRest

\* RabbitMQManager().start_rabbitmq()
CallStartRabbitmq ==
    /\ unit = NoUnit
    /\ \E psa \in Listings(SomeOutputs) : \E mut \in Runs :
         unit' = [fn |-> "start_rabbitmq", psa |-> psa, mut |-> mut,
                  out |-> start_rabbitmq(psa, mut, mut)]
    /\ UnitRest

\* RabbitMQManager().ensure_rabbitmq_running()
CallEnsureRabbitmqRunning ==
    /\ unit = NoUnit
    /\ \E v \in Runs : \E ps \in Listings(SomeOutputs) :
       \E psa \in Listings(SomeOutputs) : \E mut \in Runs :
         unit' = [fn |-> "ensure_rabbitmq_running", v |-> v, ps |-> ps, psa |-> psa,
                  mut |-> mut, out |-> ensure_rabbitmq_running(v, ps, psa, mut),
                  available |-> is_docker_available(v),
                  running |-> is_rabbitmq_running(ps),
                  started |-> start_rabbitmq(psa, mut, mut)]
    /\ UnitRest

\* get_vienna_weather() with the module's API_KEY set to key
CallGetViennaWeather ==
    /\ unit = NoUnit
    /\ \E key \in Keys : \E o \in FetchOutcomes : \E d \in Observations :
         unit' = [fn |-> "get_vienna_weather", key |-> key, outcome |-> o, body |-> d,
                  out |-> get_vienna_weather(key, o, d)]
    /\ UnitRest

\* SimpleViennaWeatherPipeline().run_stage_build()
CallRunStageBuild ==
    /\ unit = NoUnit
    /\ \E d \in BuildDeps : \E i \in BuildInstall : \E r \in BuildRequirements :
       \E k \in BuildDocker : \E raised \in BOOLEAN :
         unit' = [fn |-> "run_stage_build", deps |-> d, install |-> i, reqs |-> r,
                  docker |-> k, raised |-> raised,
                  warnings |-> build_warnings(d, i, r, k),
                  out |-> build_result(d, i, r, k, raised)]
    /\ UnitRest

\* tests/test_integration.py: the services, the variable that overrides each one's
\* URL, and the two sets of defaults.
Services == {"elasticsearch", "kibana", "rabbitmq", "logstash"}
OverrideVar == [elasticsearch |-> "ELASTICSEARCH_URL", kibana |-> "KIBANA_URL",
                rabbitmq |-> "RABBITMQ_URL", logstash |-> "LOGSTASH_URL"]
JenkinsUrls == [elasticsearch |-> "http://localhost:9201",
                kibana |-> "http://localhost:5602",
                rabbitmq |-> "http://localhost:15673",
                logstash |-> "http://localhost:9601"]
LocalUrls == [elasticsearch |-> "http://localhost:9200",
              kibana |-> "http://localhost:5601",
              rabbitmq |-> "http://localhost:15672",
              logstash |-> "http://localhost:9600"]

\* The process environments considered: each indicator unset, empty or set, each
\* override unset or set to the URL of another host.
IndicatorValues == {Unset, "", "set"}
OverrideValues == {Unset, "http://elk.example:9999"}
Environments ==
    [{"JENKINS_URL", "BUILD_NUMBER", "ELASTICSEARCH_URL", "KIBANA_URL", "RABBITMQ_URL",
      "LOGSTASH_URL"} ->
        IndicatorValues \cup OverrideValues]
SomeEnvironments ==
    {e \in Environments :
        /\ e["JENKINS_URL"] \in IndicatorValues /\ e["BUILD_NUMBER"] \in IndicatorValues
        /\ \A v \in Services : e[OverrideVar[v]] \in OverrideValues}

\* os.getenv(name, default)
getenv(e, name, default) == IF e[name] = Unset THEN default ELSE e[name]

\* Variant of is_jenkins: both indicators are required.
is_jenkins_both(e) == e["JENKINS_URL"] # Unset /\ e["BUILD_NUMBER"] # Unset

\* os.environ.get('JENKINS_URL') is not None or os.environ.get('BUILD_NUMBER') is not None
is_jenkins(e) == e["JENKINS_URL"] # Unset \/ e["BUILD_NUMBER"] # Unset

\* get_service_urls()
get_service_urls(e) ==
    IF is_jenkins(e)
    THEN [v \in Services |-> getenv(e, OverrideVar[v], JenkinsUrls[v])]
    ELSE [v \in Services |-> getenv(e, OverrideVar[v], LocalUrls[v])]

\* get_service_urls() in the process environment e
CallGetServiceUrls ==
    /\ unit = NoUnit
    /\ \E e \in SomeEnvironments :
         unit' = [fn |-> "get_service_urls", environ |-> e, out |-> get_service_urls(e)]
    /\ UnitRest

\* SimpleViennaWeatherPipeline().run_stage_clone()
CallRunStageClone ==
    /\ unit = NoUnit
    /\ \E g \in EnvDomain("git_dir") : \E tmp \in CloneTemp :
       \E rc \in EnvDomain("clone_rc") : \E m \in SUBSET RequiredFiles :
       \E h \in CloneHash : \E raised \in BOOLEAN :
         unit' = [fn |-> "run_stage_clone", git_dir |-> g, temp |-> tmp, clone_rc |-> rc,
                  missing |-> m, hash |-> h, raised |-> raised,
                  did |-> clone_steps(g, tmp, rc, m),
                  out |-> clone_result(g, rc, m, h, raised)]
    /\ UnitRest

UnitInit ==
    /\ PipeInit /\ esReachable = TRUE /\ fault = "none"
    /\ MonInit

UnitNext ==
    \/ CallIsDockerAvailable \/ CallIsRabbitmqRunning \/ CallStartRabbitmq
    \/ CallEnsureRabbitmqRunning \/ CallGetViennaWeather \/ CallRunStageBuild
    \/ CallRunStageClone \/ CallGetServiceUrls

(***************************************************************************)
(* Specifications.                                                         *)
(***************************************************************************)
Init == PipeInit /\ MonInit
Next == PipeNext
Spec == Init /\ [][Next]_vars

\* The monitor alone: the pipeline is not started.
MonitorInit == PipeInit /\ esReachable = TRUE /\ fault = "none" /\ MonInit
MonitorNext == MonNext
MonitorSpec == MonitorInit /\ [][MonitorNext]_vars

\* The publisher alone, under its driver.
PublisherSpec == PublisherInit /\ [][PublisherNext]_vars

\* The functions of the two programs, each called on its own with every input.
UnitSpec == UnitInit /\ [][UnitNext]_vars

(***************************************************************************)
(* Properties of the pipeline (checked under Spec).                        *)
(***************************************************************************)
Recorded(s) == s \in DOMAIN stage_results
StatusOf(s) == stage_results[s].status
Failed(s) == Recorded(s) /\ StatusOf(s) = "failed"
Prefix(n) == SubSeq(Stages, 1, n)
PrefixNames(n) == {Stages[i] : i \in 1..n}
Count(seq, stage) == Cardinality({i \in 1..Len(seq) : seq[i].stage = stage})
\* run_pipeline is past its loop
Halted == pc \in {"summary", "returned", "exited", "except"}
             \/ (pc = "notify" /\ frame.handler = "summary")

\* C1: run_pipeline invokes the stage functions in the order clone, build, unittest,
\* deploy, each at most once per run, and after a stage function has returned the
\* failure signal no further stage function is invoked in that run.
C1_StageOrder ==
    /\ \E n \in 0..Len(Stages) : calls = Prefix(n)
    /\ Len(returns) <= Len(calls) /\ Len(calls) <= Len(returns) + 1
    /\ \A i \in 1..Len(returns) : ~returns[i] => Len(calls) = i

C1_Witness ==
    pc = "exited" /\ calls = <<"clone", "build">> /\ returns = <<TRUE, FALSE>>

\* C2: after a stage has returned, the loop of run_pipeline has moved on to the next
\* position iff the stage recorded `success` or `warning`; a recorded `failed` halts
\* the run; and the verdict run_pipeline prints is SUCCESS iff all four stages
\* recorded a result and none recorded `failed`, so warnings of unittest and deploy
\* leave it SUCCESS.
C2_ProceedIffNotFailed ==
    /\ \A i \in 1..Len(returns) :
         /\ (idx > i) <=> (StatusOf(calls[i]) \in {"success", "warning"})
         /\ StatusOf(calls[i]) = "failed" => (idx = i /\ Len(calls) = i /\ Halted)
    /\ verdict # "" =>
         (verdict = "SUCCESS" <=>
            (DOMAIN stage_results = StageNames /\ \A s \in StageNames : ~Failed(s)))

C2_Witness ==
    /\ pc = "exited" /\ verdict = "SUCCESS"
    /\ StatusOf("unittest") = "warning" /\ StatusOf("deploy") = "warning"

\* C3: when the run halted because the stage at 0-based position k failed, the
\* "Stages completed" count it reports is k and no stage after position k has a
\* recorded result; when no stage failed the reported count is 4.
C3_StagesCompleted ==
    reported # -1 =>
        /\ \A k \in 0..(Len(Stages) - 1) :
             Failed(Stages[k + 1]) =>
                (reported = k /\ DOMAIN stage_results = PrefixNames(k + 1))
        /\ (\A s \in StageNames : ~Failed(s)) => reported = Len(Stages)

C3_Witness ==
    pc = "exited" /\ Failed("unittest") /\ reported = 2

\* C4: the process exits with status 0 iff all four stages completed and the verdict
\* is SUCCESS; it exits with 1 when a stage failed; and an exception that escapes the
\* constructor or run_pipeline is reported as a critical error and exits with 1.
C4_ExitStatus ==
    pc = "exited" =>
        /\ exit_code \in {0, 1}
        /\ exit_code = 0 <=> (verdict = "SUCCESS" /\ success_count = Len(Stages)
                              /\ Len(returns) = Len(Stages) /\ ~critical)
        /\ (\E s \in StageNames : Failed(s)) => exit_code = 1
        /\ fault \in {"construct", "loop1", "summary"} => (critical /\ exit_code = 1)
        /\ critical => (exit_code = 1 /\ verdict = "")

C4_Witness ==
    pc = "exited" /\ exit_code = 0 /\ ~critical

C4_WitnessCritical ==
    pc = "exited" /\ exit_code = 1 /\ critical /\ Len(returns) = Len(Stages)

\* C5: every stage function that was invoked has attempted exactly one notification
\* by the time it returns, whatever path it took; the summary attempts exactly one
\* more, named `pipeline`, after all of them; so a run that executed n stages and
\* reached its end attempted n + 1 notifications, the search engine reachable or not.
C5_NotificationsOnce ==
    /\ \A s \in StageNames :
         Count(notifications, s) =
            IF s \in PrefixNames(Len(calls)) /\ ~(pc = "notify" /\ frame.stage = s)
            THEN 1 ELSE 0
    /\ Count(notifications, "pipeline") =
            IF pc \in {"returned", "exited"} /\ verdict # "" THEN 1 ELSE 0
    /\ \A i \in 1..Len(notifications) :
         notifications[i].stage = "pipeline" => i = Len(notifications)
    /\ \A i \in 1..Len(notifications) :
         notifications[i].stage # "pipeline" =>
            /\ notifications[i].stage = Stages[i]
            /\ notifications[i].status \in {"success", "warning", "failed"}
    /\ (pc \in {"returned", "exited"} /\ verdict # "") =>
            Len(notifications) = Len(calls) + 1

C5_Witness ==
    /\ pc = "exited" /\ ~esReachable /\ Len(calls) = 3 /\ Len(notifications) = 4
    /\ StatusOf("unittest") = "failed"

\* C6: a step of send_notification, however the POST ends, changes nothing but the
\* record of attempted notifications: it does not raise (control returns to the
\* caller, never to the except clause of the stage or of main), and the recorded
\* stage results, the return signal of the call in progress, the returns so far,
\* the stages-completed count and the exit status are as they were before it.
C6_SendChangesNothing ==
    [][pc = "notify" =>
          /\ pc' = (IF frame.handler = "summary" THEN "returned" ELSE "stage_return")
          /\ stage_results' = stage_results
          /\ frame' = frame
          /\ returns' = returns
          /\ success_count' = success_count
          /\ reported' = reported /\ verdict' = verdict
          /\ critical' = critical /\ exit_code' = exit_code]_vars

C6_Witness ==
    pc = "stage_return" /\ lastOutcome = "timeout" /\ frame.status = "success"

\* C7, as claimed: two runs in environments that differ only in the reachability of
\* the search engine record the same status for every stage and exit alike.
C7_Original ==
    (runNo > 1 /\ pc = "exited") =>
        /\ DOMAIN stage_results = DOMAIN prev.results
        /\ \A s \in DOMAIN stage_results : StatusOf(s) = prev.results[s].status
        /\ exit_code = prev.exit_code

\* C7, amended: two such runs execute the same stages, get the same return signal
\* from each, record the same status for clone, build and unittest, report the same
\* stages-completed count and verdict and exit alike; the deploy status is `failed`
\* in both or in neither, but may be `success` in one and `warning` in the other,
\* the search-engine health probe being one of the three services it counts.
C7_Amended ==
    (runNo > 1 /\ pc = "exited") =>
        /\ prev.es # esReachable
        /\ DOMAIN stage_results = DOMAIN prev.results
        /\ calls = prev.calls /\ returns = prev.returns
        /\ \A s \in DOMAIN stage_results \ {"deploy"} :
             StatusOf(s) = prev.results[s].status
        /\ Recorded("deploy") =>
             (StatusOf("deploy") = "failed" <=> prev.results["deploy"].status = "failed")
        /\ reported = prev.reported /\ verdict = prev.verdict
        /\ critical = prev.critical /\ exit_code = prev.exit_code

C7_Witness ==
    /\ runNo > 1 /\ pc = "exited" /\ Recorded("deploy")
    /\ StatusOf("deploy") = "warning" /\ prev.results["deploy"].status = "success"
    /\ exit_code = 0 /\ prev.exit_code = 0

(***************************************************************************)
(* Properties of the monitor (checked under MonitorSpec).                  *)
(***************************************************************************)
Ops(op) == {i \in 1..Len(cycle) : cycle[i].op = op}
\* the fetch of the current cycle has returned
Fetched == mpc \in {"log", "publish", "local_only", "sleep"}
\* and the cycle has made all its calls
CycleComplete == mpc = "sleep"

\* C8: in a cycle whose fetch returned an observation, save_to_log is called exactly
\* once, with the current check counter, whatever the connectivity flag, and
\* publish_weather_data exactly once if the flag is true and not at all if it is
\* false; in a cycle whose fetch returned None neither is called.
C8_AppendAndPublishCalls ==
    /\ \A i \in Ops("append") :
         cycle[i].check_number = check_count /\ cycle[i].data = weather_data
    /\ Cardinality(Ops("append")) <= 1 /\ Cardinality(Ops("publish")) <= 1
    /\ ~rabbitmq_connected => Ops("publish") = {}
    /\ (Fetched /\ weather_data = None) => cycle = <<>>
    /\ (CycleComplete /\ weather_data # None) =>
         /\ Cardinality(Ops("append")) = 1
         /\ Cardinality(Ops("publish")) = IF rabbitmq_connected THEN 1 ELSE 0

C8_Witness ==
    /\ CycleComplete /\ weather_data # None /\ ~rabbitmq_connected
    /\ Cardinality(Ops("append")) = 1 /\ check_count = 2

C8_WitnessConnected ==
    /\ CycleComplete /\ weather_data # None /\ rabbitmq_connected
    /\ Cardinality(Ops("publish")) = 1

\* C9: within a cycle every publish attempt comes after the log write attempt for the
\* same observation; nothing is published before its log write was attempted.
C9_LogBeforePublish ==
    \A i \in Ops("publish") :
        \E j \in Ops("append") :
            j < i /\ cycle[j].data = cycle[i].data
                  /\ cycle[j].check_number = cycle[i].check_number

C9_Witness ==
    Len(cycle) = 2 /\ cycle[1].op = "append" /\ cycle[2].op = "publish"

CheckNumbers == [i \in 1..Len(log) |-> log[i].check_number]

\* C10, as claimed: the check_number values of the appended entries increase and the
\* first appended entry has check_number 1.
C10_Original ==
    /\ \A i, j \in 1..Len(log) : i < j => CheckNumbers[i] < CheckNumbers[j]
    /\ log # <<>> => CheckNumbers[1] = 1

\* C10, amended: the check_number values of the appended entries strictly increase,
\* whatever the connectivity flag; each is the number (1, 2, ...) of a cycle whose
\* fetch returned an observation, so the first appended entry has check_number 1
\* only if the first cycle's fetch succeeded and is otherwise larger.
C10_Amended ==
    /\ \A i, j \in 1..Len(log) : i < j => CheckNumbers[i] < CheckNumbers[j]
    /\ \A i \in 1..Len(log) :
         CheckNumbers[i] \in 1..check_count /\ CheckNumbers[i] \in fetched
    /\ (log # <<>> /\ CheckNumbers[1] = 1) => 1 \in fetched

C10_Witness ==
    /\ Len(log) = 2 /\ CheckNumbers[1] = 2 /\ CheckNumbers[2] = 3
    /\ 1 \notin fetched /\ ~rabbitmq_connected

\* The set of check numbers the log holds.
Logged == {log[i].check_number : i \in 1..Len(log)}

\* The logger has returned for the cycle's observation, if the cycle had one.
LoggerReturned == mpc \in {"publish", "local_only", "sleep", "loop"}

\* C11, as claimed: one entry is appended per successful fetch, so that once the
\* logger has returned the log has as many entries as fetches have succeeded.
C11_Original == LoggerReturned => Len(log) = Cardinality(fetched)

\* C11, amended: no step removes, rewrites or truncates a line of the log: a step
\* leaves the log alone or appends one entry. The entries are in fetch order, at
\* most one per successful fetch, none for a failed fetch; once the logger has
\* returned the log holds exactly the successful fetches whose write did not raise,
\* so it has as many entries as successful fetches when no write raised, and fewer
\* otherwise.
C11_Amended ==
    /\ [](/\ \A i, j \in 1..Len(log) : i < j => log[i].check_number < log[j].check_number
          /\ Logged \subseteq fetched \ lost
          /\ Len(log) <= Cardinality(fetched)
          /\ LoggerReturned => Logged = fetched \ lost)
    /\ [][\/ log' = log
          \/ Len(log') = Len(log) + 1 /\ SubSeq(log', 1, Len(log)) = log]_vars

C11_Witness ==
    /\ lost = {1} /\ fetched = {1, 2} /\ Len(log) = 1 /\ mpc = "sleep"

\* C12, as claimed: whatever the weather API answers and however a publish ends, the
\* cycle goes on to its sleep; the loop is left only on the operator's interrupt (the
\* orchestration code of the loop has no fault of its own in this model).
C12_Original == stopped \in {"running", "interrupt"}

\* The call of connect has returned True.
ConnectReturnedTrue == ctrace # <<>> /\ ctrace[Len(ctrace)] = "ok" /\ mpc # "connect"

\* C13: when the monitor function is left, by the operator's interrupt or by a fault
\* inside the loop, publisher.close() has been called (once) if connect returned True
\* at startup and has not been called otherwise; it is not called before the loop is
\* left.
C13_CloseOnExit ==
    /\ mpc = "done" => close_calls = (IF ConnectReturnedTrue THEN 1 ELSE 0)
    /\ mpc = "done" /\ close_calls = 1 =>
          pcalls # <<>> /\ pcalls[Len(pcalls)].op = "close"
    /\ mpc # "done" => close_calls = 0

C13_Witness ==
    /\ mpc = "done" /\ stopped = "fetch_fault" /\ ConnectReturnedTrue /\ close_calls = 1

C13_WitnessNotConnected ==
    /\ mpc = "done" /\ stopped = "interrupt" /\ ensure_ok = "ok" /\ ~ConnectReturnedTrue
    /\ close_calls = 0

\* The startup sequence is over.
StartupDone == mpc \notin {"startup", "connect", "connect_wait"}

\* C14: when the startup sequence is over and the loop is about to begin, the
\* connectivity flag is true exactly if ensure_rabbitmq_running succeeded and connect
\* returned True. If ensure_rabbitmq_running failed there is no publisher, connect
\* was never called, the flag is false and the monitor is in its loop all the same;
\* if it succeeded there is a publisher and connect was called once.
C14_FlagAfterStartup ==
    /\ (mpc = "loop" /\ check_count = 0) =>
          (rabbitmq_connected <=> (ensure_ok = "ok" /\ ConnectReturnedTrue))
    /\ ensure_ok = "failed" =>
          /\ ~publisher.constructed /\ connect_calls = 0 /\ pcalls = <<>>
          /\ ~rabbitmq_connected
          /\ StartupDone
    /\ ensure_ok = "ok" => publisher.constructed /\ connect_calls = 1
    /\ ensure_ok = "none" => mpc = "startup"

C14_Witness ==
    /\ mpc = "loop" /\ check_count = 0 /\ ensure_ok = "ok" /\ rabbitmq_connected

C14_WitnessDegraded ==
    /\ ensure_ok = "failed" /\ Len(log) = 2 /\ published = <<>>

\* C15: from the start of the loop on, no step changes the connectivity flag or
\* calls connect; in particular the flag is still true after a publish that returned
\* False, and with the flag true every cycle that has fetched an observation has
\* called publish by the time it sleeps.
C15_FlagFixedInLoop ==
    /\ [][StartupDone =>
            /\ rabbitmq_connected' = rabbitmq_connected
            /\ connect_calls' = connect_calls
            /\ mpc' \notin {"connect", "connect_wait"}]_vars
    /\ [](StartupDone => rabbitmq_connected = first_flag)
    /\ []((mpc = "sleep" /\ first_flag /\ check_count \in fetched) => Ops("publish") # {})

C15_Witness ==
    /\ rabbitmq_connected /\ check_count = 2 /\ mpc = "sleep"
    /\ Len(pcalls) = 2
    /\ pcalls[1].op = "publish" /\ ~pcalls[1].ret
    /\ pcalls[2].op = "publish" /\ pcalls[2].ret
    /\ connect_calls = 1

\* C16: every sleep of the loop is one of 3600 seconds, and the cycles and sleeps
\* alternate: when a fetch is about to be made every earlier fetch has been followed
\* by exactly one sleep, and after the fetch of a cycle exactly one sleep is missing
\* until the cycle has slept, whatever the fetch, the logger and the publish did.
C16_OneSleepPerCycle ==
    /\ \A i \in 1..Len(sleeps) : sleeps[i] = 3600
    /\ fetch_calls - Len(sleeps) \in {0, 1}
    /\ mpc = "fetch" => Len(sleeps) = fetch_calls /\ fetch_calls = check_count - 1
    /\ mpc \in {"log", "publish", "local_only", "sleep"} =>
          Len(sleeps) = fetch_calls - 1 /\ fetch_calls = check_count
    /\ mpc = "loop" => Len(sleeps) = fetch_calls /\ fetch_calls = check_count

C16_Witness ==
    /\ mpc = "fetch" /\ fetch_calls = 2 /\ Len(sleeps) = 2
    /\ fetched = {1} /\ lost = {1}
    /\ pcalls # <<>> /\ pcalls[Len(pcalls)].op = "publish" /\ ~pcalls[Len(pcalls)].ret

(***************************************************************************)
(* Properties of the publisher (checked under PublisherSpec).              *)
(***************************************************************************)
\* The positions of ctrace that are attempts, and those that are waits.
Attempts == {i \in 1..Len(ctrace) : ctrace[i] \in {"ok", "failed"}}
Waits == {i \in 1..Len(ctrace) : ctrace[i] = "wait"}

\* The last call that returned, and whether it was a call of op.
LastCall == pcalls[Len(pcalls)]
Returned(op) == mpc = "idle" /\ pcalls # <<>> /\ LastCall.op = op

\* C17: for every max_retries from 0 on and every sequence of attempt outcomes,
\* connect makes at most max_retries attempts and none after a successful one; it
\* returns True exactly if its last attempt succeeded, and False exactly if it made
\* max_retries attempts and all of them failed; it raises nothing.
C17_ConnectAttempts ==
    /\ Cardinality(Attempts) <= max_retries
    /\ \A i \in 1..Len(ctrace) : ctrace[i] = "ok" => i = Len(ctrace)
    /\ Returned("connect") =>
          /\ ~LastCall.raised
          /\ LastCall.ret <=> (ctrace # <<>> /\ ctrace[Len(ctrace)] = "ok")
          /\ ~LastCall.ret <=>
                (/\ Cardinality(Attempts) = max_retries
                 /\ \A i \in Attempts : ctrace[i] = "failed")

C17_Witness ==
    /\ Returned("connect") /\ LastCall.ret
    /\ max_retries = 3 /\ ctrace = <<"failed", "wait", "ok">>

C17_WitnessNone ==
    /\ Returned("connect") /\ ~LastCall.ret /\ max_retries = 0 /\ ctrace = <<>>

\* C18: in connect a wait comes only directly after a failed attempt and directly
\* before another attempt, and every failed attempt that is followed by another
\* attempt is followed by one wait; there is no wait after the attempt numbered
\* max_retries nor after a successful one. A connect that fails all max_retries >= 1
\* attempts has waited max_retries - 1 times.
C18_ConnectWaits ==
    /\ \A i \in Waits : i > 1 /\ ctrace[i - 1] = "failed"
    /\ \A i \in Attempts :
          /\ (i < Len(ctrace) /\ ctrace[i] = "failed") => ctrace[i + 1] = "wait"
          /\ Cardinality({j \in Attempts : j <= i}) = max_retries => i = Len(ctrace)
          /\ ctrace[i] = "ok" => i = Len(ctrace)
    /\ Returned("connect") =>
          /\ ctrace # <<>> => ctrace[Len(ctrace)] # "wait"
          /\ (~LastCall.ret /\ max_retries >= 1) => Cardinality(Waits) = max_retries - 1

C18_Witness ==
    /\ Returned("connect") /\ ~LastCall.ret /\ max_retries = 3
    /\ ctrace = <<"failed", "wait", "failed", "wait", "failed">>

\* C19: publish_weather_data raises nothing. Without a channel it returns False and
\* issues no request to the broker; with a channel it issues exactly one
\* basic_publish, to weather_exchange under vienna.weather.hourly, and returns True
\* if that call returned and False if it raised.
C19_PublishResult ==
    Returned("publish") =>
       /\ ~LastCall.raised
       /\ ~LastCall.chan => ~LastCall.ret /\ LastCall.sent = <<>>
       /\ LastCall.chan =>
             /\ LastCall.sent = <<[request |-> "basic_publish",
                                   exchange |-> "weather_exchange",
                                   routing_key |-> "vienna.weather.hourly"]>>
             /\ LastCall.ret <=> LastCall.outcome = "ok"

C19_Witness ==
    /\ Returned("publish") /\ LastCall.chan /\ LastCall.outcome = "raises" /\ ~LastCall.ret
    /\ Len(pcalls) = 2 /\ pcalls[1].op = "publish" /\ pcalls[1].ret

C19_WitnessNoChannel ==
    /\ Returned("publish") /\ ~LastCall.chan /\ ~LastCall.ret

\* C20: close raises nothing, whether the publisher never connected, has an open
\* connection, has a closed one, or the close of the connection raises. It issues the
\* close of the connection exactly if there is a connection that is not closed, so
\* of two calls of close in a row at most one closes the connection, and the second
\* issues nothing once the first has closed it.
C20_CloseIsSafe ==
    /\ Returned("close") =>
          /\ ~LastCall.raised
          /\ LastCall.sent # <<>> <=> LastCall.before = "open"
          /\ Len(LastCall.sent) <= 1
          /\ LastCall.closed => LastCall.sent # <<>>
    /\ (Len(pcalls) = 2 /\ pcalls[1].op = "close" /\ pcalls[2].op = "close") =>
          /\ ~(pcalls[1].closed /\ pcalls[2].closed)
          /\ pcalls[1].closed => pcalls[2].sent = <<>>

C20_Witness ==
    /\ Returned("close") /\ Len(pcalls) = 2
    /\ pcalls[1].op = "close" /\ pcalls[1].before = "open" /\ pcalls[1].closed
    /\ pcalls[2].before = "closed" /\ pcalls[2].sent = <<>>

C20_WitnessCloseRaises ==
    /\ Returned("close") /\ LastCall.before = "open" /\ LastCall.outcome = "raises"
    /\ publisher.connection = "open"

C20_WitnessNeverConnected ==
    /\ Returned("close") /\ LastCall.before = "none" /\ connect_calls = 0

(***************************************************************************)
(* Properties of single functions (checked under UnitSpec).                *)
(***************************************************************************)
\* The process exited with return code 0.
ExitedZero(p) == p.kind = "exit" /\ p.rc = 0

\* The process exited non-zero, was not found, or timed out.
ExitedBadly(p) == (p.kind = "exit" /\ p.rc # 0) \/ p.kind \in {"absent", "timeout"}

\* The container name occurs in the output the process printed.
Listed(p) ==
    /\ p.kind = "exit"
    /\ \E i \in 1..Len(p.stdout) :
          /\ i + 1 <= Len(p.stdout)
          /\ p.stdout[i] = "r" /\ p.stdout[i + 1] = "q"

\* The commands of a call that change containers.
Mutating(cmds) == {i \in 1..Len(cmds) : cmds[i] \in {"start", "run"}}

\* C21: ensure_rabbitmq_running returns False after the version check alone when the
\* runtime is unavailable; returns True after the version check and the listing of
\* running containers alone when the broker container is listed; and otherwise
\* returns what start_rabbitmq returns, having issued its commands.
C21_EnsureRunning ==
    (unit.fn = "ensure_rabbitmq_running" /\ ~unit.out.raised) =>
       /\ ExitedBadly(unit.v) => ~unit.out.ret /\ unit.out.cmds = <<"version">>
       /\ (ExitedZero(unit.v) /\ Listed(unit.ps)) =>
             unit.out.ret /\ unit.out.cmds = <<"version", "ps">>
       /\ (ExitedZero(unit.v) /\ ~Listed(unit.ps)) =>
             /\ unit.out.ret = unit.started.ret
             /\ unit.out.cmds = <<"version", "ps">> \o unit.started.cmds

C21_Witness ==
    /\ unit.fn = "ensure_rabbitmq_running" /\ ExitedZero(unit.v) /\ ~Listed(unit.ps)
    /\ unit.out.ret /\ unit.out.cmds = <<"version", "ps", "ps_all", "start">>

C21_WitnessRunning ==
    /\ unit.fn = "ensure_rabbitmq_running" /\ Listed(unit.ps) /\ unit.out.ret
    /\ Mutating(unit.out.cmds) = {}

C21_WitnessUnavailable ==
    /\ unit.fn = "ensure_rabbitmq_running" /\ unit.v.kind = "absent" /\ ~unit.out.ret
    /\ Listed(unit.ps)

\* C22: start_rabbitmq raises nothing and issues at most one command that changes
\* containers. With the name in the listing of all containers that command is
\* `start`, and the result is True exactly if it exits 0; without it the command is
\* `run`, the result is True exactly if it exits 0, and only then the call waits 10
\* seconds; a command that times out or raises makes the result False.
C22_StartBroker ==
    unit.fn = "start_rabbitmq" =>
       /\ ~unit.out.raised
       /\ Cardinality(Mutating(unit.out.cmds)) <= 1
       /\ Listed(unit.psa) =>
             /\ unit.out.cmds = <<"ps_all", "start">>
             /\ unit.out.ret <=> ExitedZero(unit.mut)
             /\ unit.out.slept = 0
       /\ (unit.psa.kind = "exit" /\ ~Listed(unit.psa)) =>
             /\ unit.out.cmds = <<"ps_all", "run">>
             /\ unit.out.ret <=> ExitedZero(unit.mut)
             /\ unit.out.slept = (IF unit.out.ret THEN 10 ELSE 0)
       /\ unit.psa.kind # "exit" =>
             ~unit.out.ret /\ unit.out.cmds = <<"ps_all">> /\ unit.out.slept = 0

C22_Witness ==
    /\ unit.fn = "start_rabbitmq" /\ ~Listed(unit.psa) /\ unit.psa.kind = "exit"
    /\ unit.out.ret /\ unit.out.slept = 10

C22_WitnessStartFails ==
    /\ unit.fn = "start_rabbitmq" /\ Listed(unit.psa) /\ unit.mut.kind = "timeout"
    /\ ~unit.out.ret /\ unit.out.cmds = <<"ps_all", "start">>

\* C23: is_docker_available returns True only if the version check exits 0 (and
\* then does); it returns False, raising nothing, when the check exits non-zero,
\* when the binary is not found and when the call times out.
C23_RuntimeAvailable ==
    unit.fn = "is_docker_available" =>
       /\ unit.out.ret <=> ExitedZero(unit.v)
       /\ ExitedBadly(unit.v) => ~unit.out.ret /\ ~unit.out.raised

C23_Witness ==
    /\ unit.fn = "is_docker_available" /\ unit.v.kind = "exit" /\ unit.v.rc = 1
    /\ ~unit.out.ret

C23_WitnessAbsent ==
    /\ unit.fn = "is_docker_available" /\ unit.v.kind = "absent" /\ ~unit.out.ret

\* C24: is_rabbitmq_running returns True exactly if the container name occurs
\* somewhere in the output of the listing of running containers; it returns False,
\* raising nothing, when the listing times out or the binary is not found.
C24_BrokerRunning ==
    unit.fn = "is_rabbitmq_running" =>
       /\ unit.out.ret <=> Listed(unit.ps)
       /\ unit.ps.kind \in {"timeout", "absent"} => ~unit.out.ret /\ ~unit.out.raised

C24_Witness ==
    /\ unit.fn = "is_rabbitmq_running" /\ unit.out.ret
    /\ unit.ps.stdout = <<"x", "r", "q">>

C24_WitnessNotListed ==
    /\ unit.fn = "is_rabbitmq_running" /\ ~unit.out.ret
    /\ unit.ps.kind = "exit" /\ unit.ps.stdout = <<"r", "x", "q">>

C25_WitnessData ==
    /\ unit.fn = "get_vienna_weather" /\ unit.outcome = "data" /\ unit.out.data = "obs_b"

\* C26: with the placeholder as key, get_vienna_weather returns None and issues no
\* HTTP request, whatever the weather API would have answered.
C26_PlaceholderKey ==
    (unit.fn = "get_vienna_weather" /\ unit.key = "YOUR_API_KEY_HERE") =>
       unit.out.data = None /\ unit.out.requests = 0 /\ ~unit.out.raised

C26_Witness ==
    /\ unit.fn = "get_vienna_weather" /\ unit.key = "YOUR_API_KEY_HERE"
    /\ unit.outcome = "data" /\ unit.out.data = None /\ unit.out.requests = 0

\* C27 (checked under MonitorSpec): a failure inside save_to_log, in building the
\* entry or in opening or writing the file, does not end the loop: the step of the
\* logger goes on to the publish when the flag is true and to the local-only branch
\* when it is false, these go on to the sleep, and a cycle whose log entry was lost
\* has, with the flag true, called publish by the time it sleeps. Only the operator's
\* interrupt comes between.
C27_LogFailureContained ==
    /\ [](stopped # "log_fault")
    /\ []((mpc = "sleep" /\ check_count \in lost /\ rabbitmq_connected) =>
             Ops("publish") # {})
    /\ [][(mpc = "log" /\ stopped' = stopped) =>
             mpc' = (IF rabbitmq_connected THEN "publish" ELSE "local_only")]_vars
    /\ [][(mpc \in {"publish", "local_only"} /\ stopped' = stopped) => mpc' = "sleep"]_vars

C27_Witness ==
    /\ mpc = "sleep" /\ check_count = 1 /\ lost = {1} /\ log = <<>>
    /\ rabbitmq_connected /\ Ops("publish") # {} /\ Len(published) = 1

(***************************************************************************)
(* Properties of the stages of the pipeline.                               *)
(***************************************************************************)
\* The stage function s has recorded its result in its try block and is notifying.
InTry(s) == pc = "notify" /\ frame.stage = s /\ frame.handler = "try"

\* The probes of the deploy stage that were answered with HTTP 200 in this run.
Answered200 ==
    (IF EsProbe(env.es_health) \in {"200_json", "200_badjson"} THEN 1 ELSE 0)
    + (IF env.kibana = "200" THEN 1 ELSE 0) + (IF env.rabbitmq = "200" THEN 1 ELSE 0)

\* C28, as claimed (checked under Spec): the deploy stage records `success` exactly
\* if at least two of its three probes were answered with HTTP 200 and `warning`
\* otherwise, and returns True in both cases.
C28_Original ==
    InTry("deploy") =>
       /\ frame.status = "success" <=> Answered200 >= 2
       /\ frame.status = "warning" <=> Answered200 < 2
       /\ frame.ret

\* C29 (checked under Spec): the unittest stage records `success` exactly if
\* pipeline-config.json exists and the reachability probe is answered with 200 (the
\* data-format check is the constant True) and `warning` otherwise, whatever the
\* search-engine health check gives, and returns True either way; a second run that
\* differs in the reachability of the search engine records the same status.
C29_UnittestStatus ==
    /\ InTry("unittest") =>
          /\ frame.status = "success" <=> (env.config = "present" /\ env.api = "200")
          /\ frame.status = "warning" <=> ~(env.config = "present" /\ env.api = "200")
          /\ frame.ret
    /\ (runNo > 1 /\ "unittest" \in DOMAIN prev.results /\ Recorded("unittest")
        /\ pc \notin {"main", "loop"} /\ fault # "unittest") =>
          StatusOf("unittest") = prev.results["unittest"].status

C29_Witness ==
    /\ InTry("unittest") /\ frame.status = "success" /\ ~esReachable /\ runNo = 1

C29_WitnessWarning ==
    /\ InTry("unittest") /\ frame.status = "warning" /\ esReachable
    /\ env.es_health = "200_json" /\ env.api = "other" /\ frame.ret

C29_WitnessSecondRun ==
    /\ runNo = 2 /\ pc = "exited" /\ Recorded("unittest") /\ StatusOf("unittest") = "success"
    /\ esReachable /\ env.es_health = "other"

\* C30 (checked under UnitSpec): whatever the build stage finds - packages missing,
\* their installation failing or raising, requirements.txt failing to install, the
\* container runtime not answering, a container absent - it records `success` and
\* returns True; it records `failed`, and returns False, exactly when the body of the
\* stage raises outside its inner try statements.
C30_BuildNeverFails ==
    unit.fn = "run_stage_build" =>
       /\ ~unit.raised => unit.out.status = "success" /\ unit.out.ret
       /\ unit.raised => unit.out.status = "failed" /\ ~unit.out.ret

C30_Witness ==
    /\ unit.fn = "run_stage_build" /\ ~unit.raised
    /\ unit.deps = "missing" /\ unit.install = "raises" /\ unit.reqs = "nonzero"
    /\ unit.docker = "raises"
    /\ unit.warnings = {"package not found", "package not installed",
                        "requirements not installed", "docker not available"}
    /\ unit.out.status = "success" /\ unit.out.ret

C30_WitnessContainer ==
    /\ unit.fn = "run_stage_build" /\ unit.docker = "container_absent"
    /\ unit.out.status = "success"

\* The stage acquired a validation root: .git was there or git clone exited 0.
RootAcquired == unit.git_dir = "present" \/ unit.clone_rc = "zero"

\* The positions of step in the steps the stage performed.
Did(step) == {i \in 1..Len(unit.did.steps) : unit.did.steps[i] = step}

\* C31 (checked under UnitSpec): with a validation root acquired and no exception in
\* the body, the clone stage records `success` exactly if none of the four required
\* files is missing from the root; with files missing it records `failed`, names
\* exactly those files and returns False; how the reading of the commit hash ends
\* changes nothing.
C31_CloneValidation ==
    (unit.fn = "run_stage_clone" /\ ~unit.raised /\ RootAcquired) =>
       /\ unit.out.status = "success" <=> unit.missing = {}
       /\ unit.missing # {} =>
             /\ unit.out.status = "failed" /\ ~unit.out.ret
             /\ unit.out.details = "Missing files in repository"
             /\ unit.out.files = unit.missing
       /\ unit.missing = {} => unit.out.ret /\ unit.out.files = {}

C31_Witness ==
    /\ unit.fn = "run_stage_clone" /\ ~unit.raised /\ RootAcquired
    /\ unit.missing = {} /\ unit.hash = "raises" /\ unit.out.status = "success"
    /\ Did("rev_parse") # {}

C31_WitnessMissing ==
    /\ unit.fn = "run_stage_clone" /\ ~unit.raised /\ unit.git_dir = "absent"
    /\ unit.clone_rc = "zero"
    /\ unit.missing = {"docker-compose.yml", "pipeline-config.json"}
    /\ unit.out.status = "failed" /\ unit.out.files = unit.missing

\* C32 (checked under UnitSpec): with .git present the clone command is not invoked
\* and project_root is the validation root; without it an existing temp_clone is
\* removed before the one invocation of the clone command, and a non-zero exit of
\* that command records `failed` with the client's error output and returns False
\* without validating the required files.
C32_CloneOrNot ==
    (unit.fn = "run_stage_clone" /\ ~unit.raised) =>
       /\ unit.git_dir = "present" =>
             /\ Did("git_clone") = {} /\ Did("rmtree") = {}
             /\ unit.did.root = "project_root" /\ Did("validate") # {}
       /\ unit.git_dir = "absent" =>
             /\ Cardinality(Did("git_clone")) = 1
             /\ Did("rmtree") # {} <=> unit.temp = "exists"
             /\ \A i \in Did("rmtree") : \A j \in Did("git_clone") : i < j
             /\ \A i \in Did("validate") : \A j \in Did("git_clone") : j < i
       /\ (unit.git_dir = "absent" /\ unit.clone_rc = "nonzero") =>
             /\ unit.out.status = "failed" /\ ~unit.out.ret
             /\ unit.out.details = "Git clone failed"
             /\ Did("validate") = {} /\ unit.did.root = "none"
       /\ (unit.git_dir = "absent" /\ unit.clone_rc = "zero") =>
             unit.did.root = "temp_clone" /\ Did("validate") # {}

C32_Witness ==
    /\ unit.fn = "run_stage_clone" /\ ~unit.raised /\ unit.git_dir = "absent"
    /\ unit.temp = "exists" /\ unit.clone_rc = "nonzero" /\ unit.missing # {}
    /\ unit.did.steps = <<"rmtree", "git_clone">> /\ unit.out.status = "failed"

C32_WitnessPresent ==
    /\ unit.fn = "run_stage_clone" /\ ~unit.raised /\ unit.git_dir = "present"
    /\ unit.temp = "exists" /\ unit.did.steps = <<"validate", "rev_parse">>

\* C33, as claimed: an exception that reaches the top level of either script is caught
\* there, reported as a critical error, and the process exits with a non-zero status.
C33_Original ==
    /\ (pc = "exited" /\ fault \in {"construct", "loop1", "summary"}) =>
          critical /\ exit_code # 0
    /\ (top.exit # "running" /\ stopped # "interrupt") =>
          top.caught /\ top.critical /\ top.status # 0

\* C36 (checked under MonitorSpec): once the operator's interrupt has arrived inside
\* the loop, no cycle is started and nothing is fetched, appended to the log or
\* published any more; the summary printed by the handler gives the number of cycles
\* started; and the cleanup's close comes after the summary.
C36_InterruptEndsLoop ==
    /\ [](stopped = "interrupt" =>
             /\ top.summary = check_count
             /\ mpc \in {"finally", "done"}
             /\ mpc = "finally" => close_calls = 0)
    /\ [][stopped = "interrupt" =>
             /\ check_count' = check_count /\ fetch_calls' = fetch_calls
             /\ log' = log /\ published' = published /\ sleeps' = sleeps]_vars
    /\ [][close_calls' # close_calls => (stopped # "running" /\ mpc = "finally")]_vars

C36_Witness ==
    /\ mpc = "done" /\ stopped = "interrupt" /\ top.at = "publish"
    /\ check_count = 2 /\ top.summary = 2 /\ close_calls = 1 /\ Len(published) = 1

C36_WitnessSleep ==
    /\ mpc = "done" /\ stopped = "interrupt" /\ top.at = "sleep"
    /\ top.summary = 1 /\ close_calls = 0

C36_WitnessFetch ==
    /\ mpc = "finally" /\ stopped = "interrupt" /\ top.at = "fetch"
    /\ top.summary = 3 /\ fetch_calls = 2

\* A continuous-integration indicator is present in the environment of the call.
IndicatorPresent ==
    unit.environ["JENKINS_URL"] # Unset \/ unit.environ["BUILD_NUMBER"] # Unset

\* The URLs of the two sets of defaults.
UrlsOf(set) == {set[v] : v \in Services}

\* C34, as claimed: without an indicator the resolution gives the production set, with
\* at least one indicator the continuous-integration set, and the sets are disjoint.
C34_Original ==
    /\ UrlsOf(LocalUrls) \cap UrlsOf(JenkinsUrls) = {}
    /\ unit.fn = "get_service_urls" =>
          unit.out = (IF IndicatorPresent THEN JenkinsUrls ELSE LocalUrls)

\* C34, amended (checked under UnitSpec): for every service whose override variable is
\* not set, the resolution gives the production URL when neither indicator is present
\* and the continuous-integration URL when at least one is (an empty value counts as
\* present); a service whose override variable is set gets that variable's value in
\* both cases; the two sets of defaults are disjoint.
C34_Amended ==
    /\ UrlsOf(LocalUrls) \cap UrlsOf(JenkinsUrls) = {}
    /\ unit.fn = "get_service_urls" =>
          \A v \in Services :
             IF unit.environ[OverrideVar[v]] = Unset
             THEN unit.out[v] = (IF IndicatorPresent THEN JenkinsUrls[v] ELSE LocalUrls[v])
             ELSE unit.out[v] = unit.environ[OverrideVar[v]]

C34_Witness ==
    /\ unit.fn = "get_service_urls"
    /\ unit.environ["JENKINS_URL"] = Unset /\ unit.environ["BUILD_NUMBER"] = ""
    /\ unit.environ["KIBANA_URL"] # Unset
    /\ unit.out["kibana"] = "http://elk.example:9999"
    /\ unit.out["elasticsearch"] = "http://localhost:9201"

C34_WitnessLocal ==
    /\ unit.fn = "get_service_urls" /\ ~IndicatorPresent
    /\ \A v \in Services : unit.environ[OverrideVar[v]] = Unset
    /\ unit.out = LocalUrls

\* C35 (checked under MonitorSpec): the steps a connect attempt completes are an
\* initial part of open connection, open channel, declare exchange, declare queue,
\* bind queue; connect has returned True only with all five completed in its last
\* attempt; so while the connectivity flag is true the publisher has a channel on
\* which the exchange, the queue and the binding were declared.
C35_ConnectOrder ==
    LET order == <<"connection", "channel", "exchange", "queue", "binding">> IN
    /\ Len(publisher.steps) <= Len(order)
    /\ publisher.steps = SubSeq(order, 1, Len(publisher.steps))
    /\ ConnectReturnedTrue => publisher.steps = order
    /\ rabbitmq_connected =>
          /\ publisher.steps = order
          /\ publisher.connection # "none" /\ publisher.channel
          /\ publisher.declared = {"exchange", "queue", "binding"}

C35_Witness ==
    /\ rabbitmq_connected /\ mpc = "publish"
    /\ ctrace = <<"failed", "wait", "ok">>
    /\ publisher.declared = {"exchange", "queue", "binding"}

C35_WitnessPartial ==
    /\ mpc = "connect_wait" /\ publisher.steps = <<"connection", "channel", "exchange">>
    /\ publisher.declared = {"exchange"} /\ ~rabbitmq_connected

\* The connections the publisher opened that are open.
OpenConnections == publisher.dropped + (IF publisher.connection = "open" THEN 1 ELSE 0)

\* The last call of connect has returned False.
ConnectReturnedFalse ==
    /\ ctrace # <<>> \/ connect_calls > 0
    /\ mpc \notin {"startup", "connect", "connect_wait"}
    /\ ~ConnectReturnedTrue /\ publisher.constructed

\* C37, as claimed: at most one connection opened by the publisher is open at any
\* time, and after connect has returned False none is.
C37_Original ==
    /\ OpenConnections <= 1
    /\ ConnectReturnedFalse => OpenConnections = 0

\* C38 (checked under MonitorSpec): the monitor calls publish_weather_data and close
\* only on a publisher that was constructed: it is about to publish, or has called
\* either, only with the connectivity flag true, and the flag is true only if the
\* publisher was constructed and its connect returned True.
C38_NoUseBeforeConstruction ==
    /\ rabbitmq_connected => (publisher.constructed /\ ConnectReturnedTrue)
    /\ mpc = "publish" => rabbitmq_connected
    /\ (published # <<>> \/ close_calls > 0) => rabbitmq_connected
    /\ (\E i \in 1..Len(pcalls) : pcalls[i].op \in {"publish", "close"}) =>
          (publisher.constructed /\ rabbitmq_connected)
    /\ ~publisher.constructed => (pcalls = <<>> /\ close_calls = 0 /\ published = <<>>)

C38_Witness ==
    /\ mpc = "done" /\ ensure_ok = "failed" /\ ~publisher.constructed
    /\ check_count = 2 /\ Len(log) = 2 /\ pcalls = <<>> /\ close_calls = 0

C38_WitnessNotConnected ==
    /\ mpc = "done" /\ publisher.constructed /\ ~rabbitmq_connected
    /\ ctrace = <<"failed", "wait", "failed", "wait", "failed">>
    /\ Len(log) = 1 /\ close_calls = 0 /\ published = <<>>

\* C39 (checked under Spec): in every state of a run the stages with a recorded result
\* are the first n of clone, build, unittest, deploy; every recorded status is
\* success, warning or failed; only the last recorded stage can be failed; a stage
\* function has returned False exactly if it recorded failed; and every notification
\* attempted for a stage carries the status, the details and the file names recorded
\* for that stage, and every notification of the run the one pipeline id given to the
\* pipeline object when it was constructed.
C39_PipelineInvariant ==
    /\ \E n \in 0..Len(Stages) : DOMAIN stage_results = PrefixNames(n)
    /\ \A st \in DOMAIN stage_results : StatusOf(st) \in {"success", "warning", "failed"}
    /\ \A i \in 1..Len(Stages) - 1 : Failed(Stages[i]) => ~Recorded(Stages[i + 1])
    /\ \A i \in 1..Len(returns) : Recorded(Stages[i]) /\ (~returns[i] <=> Failed(Stages[i]))
    /\ \A i \in 1..Len(notifications) :
          /\ notifications[i].pipeline_id = pipeline_id
          /\ pipeline_id \in {new_pipeline_id(t) : t \in StartTimes}
          /\ notifications[i].stage # "pipeline" =>
                /\ Recorded(notifications[i].stage)
                /\ notifications[i].status = StatusOf(notifications[i].stage)
                /\ notifications[i].details = stage_results[notifications[i].stage].details
                /\ notifications[i].files = stage_results[notifications[i].stage].files

C39_Witness ==
    /\ pc = "exited" /\ Len(notifications) = 5 /\ returns = <<TRUE, TRUE, TRUE, FALSE>>
    /\ StatusOf("unittest") = "warning" /\ Failed("deploy")
    /\ notifications[3].status = "warning" /\ notifications[4].status = "failed"
    /\ notifications[4].details = "Deploy failed"

C39_WitnessMissingFiles ==
    /\ pc = "exited" /\ returns = <<FALSE>> /\ Len(notifications) = 2
    /\ notifications[1].files = {"docker-compose.yml"}
    /\ stage_results["clone"].files = {"docker-compose.yml"}

C39_WitnessSecondRun ==
    /\ runNo = 2 /\ pc = "exited" /\ Len(returns) = Len(Stages) /\ Len(notifications) = 5
    /\ \A i \in 1..5 : notifications[i].pipeline_id = pipeline_id

====
